---- MODULE Spec2Model ----
(***************************************************************************)
(* A model of keytao-bot: the conversation history store                   *)
(* (utils/history_store.py), the plugin dispatch (plugins/*.py) and the    *)
(* tool-calling turn of the AI chat plugin (plugins/openai_chat.py).       *)
(*                                                                         *)
(* Three specifications share the variables:                               *)
(*   SpecStore    the HistoryStore operations on the conversations table   *)
(*   SpecDispatch one inbound event offered to the matchers by priority    *)
(*   SpecTurn     handle_ai_chat / get_openai_response, turn after turn    *)
(***************************************************************************)
EXTENDS Integers, Sequences, FiniteSets, TLC

VARIABLES
    \* ---- history store (SQLite table "conversations")
    rows,       \* the table: a set of rows [id, platform, user_id, role, content, timestamp]
    nextId,     \* the next AUTOINCREMENT id
    clock,      \* CURRENT_TIMESTAMP, in whole seconds
    lastOp,     \* the store operation that ran last, with its arguments
    got,        \* what the last get_history returned
    deleted,    \* what the last clear_history returned
    rounds,     \* per identity: add_conversation_round calls completed since its last clear
    \* ---- plugin dispatch of one inbound event
    event,      \* the inbound event being dispatched
    dpc,        \* "idle", "offer" (the event is being offered) or "done"
    prio,       \* the priority of the matchers the event is offered to next
    ran,        \* the handlers that have run for the event
    \* ---- AI chat turn (handle_ai_chat / get_openai_response)
    botToken,   \* whether BOT_API_TOKEN is configured
    apiKey,     \* whether ARK_API_KEY is configured
    tpc,        \* "idle", "llm" (top of the loop), "tools" (executing tool calls), "reply"
    plaintext,  \* event.get_plaintext() of the message being handled
    messages,   \* the messages list sent to the LLM
    iteration,  \* loop iterations started in this turn
    nReq,       \* chat-completion requests made in this turn
    pending,    \* tool calls of the last response not yet executed
    reply,      \* what get_openai_response returned / the handler sends
    lastCall,   \* the tool call handled by the last step, and what became of it
    warned,     \* <<word, code, action>> of create calls that returned requiresConfirmation
    curWarn,    \* a create call returned requiresConfirmation in this turn
    prevWarn,   \* ... in the sender's previous turn
    turnsLeft,  \* messages the sender may still send
    oddLeft,    \* tool calls other than a plain successful lookup still allowed
    \* ---- one call of a skill tool, with what the backend answers
    skIn,       \* the call: the tool, its arguments, the backend's responses
    skOut       \* what the tool returned and the requests it made

storeVars == <<rows, nextId, clock, lastOp, got, deleted, rounds>>
dispatchVars == <<event, dpc, prio, ran>>
turnVars == <<botToken, apiKey, tpc, plaintext, messages, iteration, nReq, pending, reply,
              lastCall, warned, curWarn, prevWarn, turnsLeft, oddLeft>>
skillVars == <<skIn, skOut>>
vars == <<rows, nextId, clock, lastOp, got, deleted, rounds, event, dpc, prio, ran,
          botToken, apiKey, tpc, plaintext, messages, iteration, nReq, pending, reply,
          lastCall, warned, curWarn, prevWarn, turnsLeft, oddLeft, skIn, skOut>>

(***************************************************************************)
(* Bounds of the model                                                     *)
(***************************************************************************)
MaxClock == 2
MaxRowId == 4
MaxLimit == 3
MaxRounds == 2
MaxTurns == 2
MaxOdd == 2
MaxOddRound == 1
\* MaxTurns: messages the sender sends. MaxOdd: how many things other than a
\* plain, successfully answered lookup (another tool call, text beside the tool
\* calls, a failed LLM request, an unusual backend answer) happen in a session.
\* MaxOddRound: the last round of a turn in which they happen.

(***************************************************************************)
(* History store                                                           *)
(***************************************************************************)
\* Platform identities (platform, user_id); two platforms share a user id.
Keys == { <<"qq", "u1">>, <<"telegram", "u1">> }
UserTexts == { "a", "b" }
ReplyTexts == { "r" }
NoOp == [op |-> "none"]

\* WHERE platform = ? AND user_id = ?
RowsOf(table, platform, user_id) ==
    { r \in table : r.platform = platform /\ r.user_id = user_id }

\* ORDER BY timestamp DESC over a set of rows
RECURSIVE OrderByTimestampDesc(_)
OrderByTimestampDesc(S) ==
    IF S = {} THEN <<>>
    ELSE LET m == CHOOSE r \in S : \A q \in S : q.timestamp <= r.timestamp
         IN  <<m>> \o OrderByTimestampDesc(S \ {m})

Reversed(s) == [i \in 1..Len(s) |-> s[Len(s) + 1 - i]]

Min(a, b) == IF a <= b THEN a ELSE b

\* HistoryStore.get_history: the newest `limit` rows, then reversed.
GetHistoryMutNoReverse(table, platform, user_id, limit) ==
    LET ordered == OrderByTimestampDesc(RowsOf(table, platform, user_id))
        page    == SubSeq(ordered, 1, Min(limit, Len(ordered)))
    IN  [i \in 1..Len(page) |->
            [role |-> page[i].role, content |-> page[i].content,
             timestamp |-> page[i].timestamp]]

GetHistory(table, platform, user_id, limit) ==
    LET ordered == OrderByTimestampDesc(RowsOf(table, platform, user_id))
        page    == SubSeq(ordered, 1, Min(limit, Len(ordered)))
        chrono  == Reversed(page)
    IN  [i \in 1..Len(chrono) |->
            [role |-> chrono[i].role, content |-> chrono[i].content,
             timestamp |-> chrono[i].timestamp]]

\* UNIQUE(platform, user_id, timestamp)
Collides(table, platform, user_id, ts) ==
    \E r \in RowsOf(table, platform, user_id) : r.timestamp = ts

\* INSERT OR REPLACE instead of INSERT: the colliding row gives way.
AddMessageMutReplace(st, platform, user_id, role, content, ts) ==
    << { r \in st[1] : ~(r.platform = platform /\ r.user_id = user_id /\ r.timestamp = ts) }
       \cup { [id |-> st[2], platform |-> platform, user_id |-> user_id,
                role |-> role, content |-> content, timestamp |-> ts] },
       st[2] + 1 >>

\* HistoryStore.add_message on the pair <<table, next id>> at clock reading ts:
\* the INSERT, or nothing when it raises IntegrityError.
AddMessage(st, platform, user_id, role, content, ts) ==
    IF Collides(st[1], platform, user_id, ts)
    THEN st
    ELSE << st[1] \cup { [id |-> st[2], platform |-> platform, user_id |-> user_id,
                          role |-> role, content |-> content, timestamp |-> ts] },
            st[2] + 1 >>

\* HistoryStore.add_conversation_round: two add_message calls, the second at
\* clock reading ts2 >= ts1.
AddConversationRound(st, platform, user_id, user_message, assistant_message, ts1, ts2) ==
    AddMessage(AddMessage(st, platform, user_id, "user", user_message, ts1),
               platform, user_id, "assistant", assistant_message, ts2)

\* HistoryStore.clear_history: <<table after the DELETE, cursor.rowcount>>
ClearHistoryMutUserOnly(table, platform, user_id) ==
    << { r \in table : r.user_id # user_id },
       Cardinality({ r \in table : r.user_id = user_id }) >>

ClearHistory(table, platform, user_id) ==
    << table \ RowsOf(table, platform, user_id),
       Cardinality(RowsOf(table, platform, user_id)) >>

NoEvent == [bot |-> "none"]

StoreIdle ==
    /\ rows = {}
    /\ nextId = 1
    /\ clock = 0
    /\ lastOp = NoOp
    /\ got = <<>>
    /\ deleted = 0
    /\ rounds = [k \in Keys |-> 0]

DispatchIdle ==
    /\ event = NoEvent
    /\ dpc = "idle"
    /\ prio = 0
    /\ ran = {}

\* No backend request / no tool call handled by the last step.
NoRequest == [sent |-> FALSE, endpoint |-> "none", identity |-> <<"", "">>,
              confirmed |-> FALSE, wca |-> <<"", "", "">>,
              requests |-> <<>>, body |-> {}, type |-> "", batch |-> ""]
NoCall == [id |-> <<0, 0>>, name |-> "none", failure |-> "none", executed |-> FALSE,
           confirmed |-> FALSE, wca |-> <<"", "", "">>, priorWarning |-> FALSE,
           request |-> NoRequest]

NoSkillCall == [tool |-> "none"]

SkillIdle ==
    /\ skIn = NoSkillCall
    /\ skOut = NoSkillCall

TurnIdle ==
    /\ botToken = TRUE
    /\ apiKey = TRUE
    /\ tpc = "idle"
    /\ plaintext = <<>>
    /\ messages = <<>>
    /\ iteration = 0
    /\ nReq = 0
    /\ pending = <<>>
    /\ reply = <<>>
    /\ lastCall = NoCall
    /\ warned = {}
    /\ curWarn = FALSE
    /\ prevWarn = FALSE
    /\ turnsLeft = 0
    /\ oddLeft = 0

InitStore ==
    /\ DispatchIdle
    /\ TurnIdle
    /\ SkillIdle
    /\ rows = {}
    /\ nextId = 1
    /\ clock = 0
    /\ lastOp = NoOp
    /\ got = <<>>
    /\ deleted = 0
    /\ rounds = [k \in Keys |-> 0]

\* Time passes between two operations.
Tick ==
    /\ clock < MaxClock
    /\ clock' = clock + 1
    /\ lastOp' = [op |-> "tick"]
    /\ got' = <<>>
    /\ deleted' = 0
    /\ UNCHANGED <<rows, nextId, rounds>>
    /\ UNCHANGED <<dispatchVars, skillVars>>
    /\ UNCHANGED turnVars

DoAddRound ==
    \E k \in Keys, um \in UserTexts, am \in ReplyTexts, d \in 0..1 :
        /\ nextId + 1 <= MaxRowId
        /\ rounds[k] < MaxRounds
        /\ clock + d <= MaxClock
        /\ LET st == AddConversationRound(<<rows, nextId>>, k[1], k[2], um, am,
                                          clock, clock + d)
           IN  /\ rows' = st[1]
               /\ nextId' = st[2]
        /\ clock' = clock + d
        /\ rounds' = [rounds EXCEPT ![k] = @ + 1]
        /\ lastOp' = [op |-> "add_round", key |-> k]
        /\ got' = <<>>
        /\ deleted' = 0
        /\ UNCHANGED <<dispatchVars, skillVars>>
        /\ UNCHANGED turnVars

DoGetHistory ==
    \E k \in Keys, limit \in 0..MaxLimit :
        /\ got' = GetHistory(rows, k[1], k[2], limit)
        /\ lastOp' = [op |-> "get", key |-> k, limit |-> limit]
        /\ deleted' = 0
        /\ UNCHANGED <<rows, nextId, clock, rounds>>
        /\ UNCHANGED <<dispatchVars, skillVars>>
        /\ UNCHANGED turnVars

DoClearHistory ==
    \E k \in Keys :
        /\ LET res == ClearHistory(rows, k[1], k[2])
           IN  /\ rows' = res[1]
               /\ deleted' = res[2]
        /\ rounds' = [rounds EXCEPT ![k] = 0]
        /\ lastOp' = [op |-> "clear", key |-> k]
        /\ got' = <<>>
        /\ UNCHANGED <<nextId, clock>>
        /\ UNCHANGED <<dispatchVars, skillVars>>
        /\ UNCHANGED turnVars

NextStore == Tick \/ DoAddRound \/ DoGetHistory \/ DoClearHistory

SpecStore == InitStore /\ [][NextStore]_vars

\* HistoryStore.add_message called on its own; it returns None whether the
\* row was inserted or the IntegrityError was caught.
Roles == { "user", "assistant" }

DoAddMessage ==
    \E k \in Keys, role \in Roles, content \in UserTexts :
        /\ nextId <= MaxRowId
        /\ LET st == AddMessage(<<rows, nextId>>, k[1], k[2], role, content, clock)
           IN  /\ rows' = st[1]
               /\ nextId' = st[2]
               /\ lastOp' = [op |-> "add_message", key |-> k, raised |-> FALSE,
                              inserted |-> st[2] # nextId]
        /\ got' = <<>>
        /\ deleted' = 0
        /\ UNCHANGED <<clock, rounds>>
        /\ UNCHANGED <<dispatchVars, skillVars>>
        /\ UNCHANGED turnVars

NextMessages == Tick \/ DoAddMessage \/ DoClearHistory

SpecMessages == InitStore /\ [][NextMessages]_vars

(***************************************************************************)
(* Plugin dispatch: the matchers registered by the plugins, offered one    *)
(* event in ascending priority; a matcher registered with block=True that  *)
(* runs stops the propagation to the later priorities.                     *)
(***************************************************************************)
\* An inbound event as the rules read it:
\*   bot         the adapter's Bot class (TelegramBot, QQBot, another)
\*   chat        PrivateMessageEvent, GroupMessageEvent or another event type
\*   tome        event.is_tome(), what rule to_me() returns
\*   replyToBot  reply_to_message is set and its from_.id is the bot's id
\*   mention     a 'mention' segment whose text is "@<bot username>"
\*   cmd         the command the message starts with, if any
\*   raises      bot.get_me() (or reading the event) raises
\* A direct message is always addressed to the bot (is_tome() is true).
Events ==
    { e \in [bot : {"telegram", "qq", "other"},
             chat : {"private", "group", "other"},
             tome : BOOLEAN, replyToBot : BOOLEAN, mention : BOOLEAN,
             cmd : {"none", "bind", "clear"},
             raises : BOOLEAN] :
        e.chat = "private" => e.tome }

should_handleMutToMe(e) == e.tome

\* openai_chat.should_handle
should_handle(e) ==
    IF e.bot = "telegram"
    THEN IF e.chat = "private" THEN TRUE
         ELSE IF e.chat = "group"
              THEN IF e.raises THEN FALSE      \* except Exception: return False
                   ELSE e.replyToBot \/ e.mention
              ELSE FALSE
    ELSE IF e.raises THEN FALSE ELSE e.tome     \* to_me()(bot, event, {})

should_handle_bindMutAsChat(e) == should_handle(e)

\* account_bind.should_handle_bind
should_handle_bind(e) ==
    IF e.bot = "telegram"
    THEN IF e.chat = "private" THEN TRUE
         ELSE IF e.chat = "group"
              THEN IF e.raises THEN TRUE       \* except Exception: return True
                   ELSE e.replyToBot \/ e.mention
              ELSE FALSE
    ELSE IF e.raises THEN TRUE ELSE e.tome

\* The matchers: on_command / on_message registrations.
bind_cmd == [name |-> "bind_cmd", priority |-> 5, block |-> TRUE]
clear_cmd == [name |-> "clear_cmd", priority |-> 5, block |-> TRUE]
echo_hiMutNoBlock == [name |-> "echo_hi", priority |-> 10, block |-> FALSE]
echo_hi == [name |-> "echo_hi", priority |-> 10, block |-> TRUE]
ai_chat == [name |-> "ai_chat", priority |-> 99, block |-> TRUE]
Matchers == { bind_cmd, clear_cmd, echo_hi, ai_chat }

\* Whether a matcher's rule accepts the event.
Matches(m, e) ==
    CASE m.name = "bind_cmd"  -> e.cmd = "bind" /\ should_handle_bind(e)
      [] m.name = "clear_cmd" -> e.cmd = "clear" /\ should_handle(e)
      [] m.name = "echo_hi"   -> e.tome
      [] m.name = "ai_chat"   -> should_handle(e)

Priorities == { m.priority : m \in Matchers }
NextPriority(p) ==
    IF \E q \in Priorities : q > p
    THEN CHOOSE q \in Priorities : q > p /\ \A r \in Priorities : r > p => q <= r
    ELSE 0

InitDispatch ==
    /\ StoreIdle
    /\ DispatchIdle
    /\ TurnIdle
    /\ SkillIdle

Receive ==
    /\ dpc = "idle"
    /\ \E e \in Events : event' = e
    /\ dpc' = "offer"
    /\ prio' = NextPriority(0)
    /\ ran' = {}
    /\ UNCHANGED storeVars
    /\ UNCHANGED <<turnVars, skillVars>>

\* The event is offered to every matcher of priority p.
RunPriority(p) ==
    /\ dpc = "offer"
    /\ prio = p
    /\ LET matched == { m \in Matchers : m.priority = p /\ Matches(m, event) }
           stop    == (\E m \in matched : m.block) \/ NextPriority(p) = 0
       IN  /\ ran' = ran \cup { m.name : m \in matched }
           /\ dpc' = IF stop THEN "done" ELSE "offer"
           /\ prio' = IF stop THEN 0 ELSE NextPriority(p)
    /\ UNCHANGED event
    /\ UNCHANGED storeVars
    /\ UNCHANGED <<turnVars, skillVars>>

RunCommands == RunPriority(5)
RunEcho == RunPriority(10)
RunAiChat == RunPriority(99)

NextDispatch == Receive \/ RunCommands \/ RunEcho \/ RunAiChat

SpecDispatch == InitDispatch /\ [][NextDispatch]_vars

\* C7: every inbound event that is addressed to the bot, satisfies the AI chat
\* engagement rule and is not a /bind or /clear command is handled by the AI
\* chat handler: no higher-priority plugin consumes it first.
C7_AddressedReachesAiChat ==
    ( /\ dpc = "done"
      /\ event.tome
      /\ should_handle(event)
      /\ event.cmd = "none" ) => "ai_chat" \in ran

\* Evaluating the rule meets an exception: bot.get_me() in a Telegram group,
\* the default rule elsewhere; a Telegram private message is accepted before
\* anything is evaluated.
RuleRaises(e) ==
    e.raises /\ (e.bot = "telegram" => e.chat = "group")

C31_OneHandlerPerEvent ==
    LET Rank(name) == CASE name \in {"bind_cmd", "clear_cmd"} -> 5
                        [] name = "echo_hi" -> 10
                        [] name = "ai_chat" -> 99
    IN  /\ Cardinality(ran) <= 1
        /\ dpc = "offer" => ran = {}
        /\ \A n \in ran : \A m \in Matchers :
                Rank(m.name) < Rank(n) => ~Matches(m, event)
        /\ (dpc = "done" /\ ran = {}) => \A m \in Matchers : ~Matches(m, event)
        /\ (ran \cap {"bind_cmd", "clear_cmd"} # {}) =>
                ran \cap {"echo_hi", "ai_chat"} = {}

\* /clear, addressed to the bot on QQ, was handled by the command alone
\* although the echo and AI chat rules accept the event too.
C31_Witness ==
    /\ dpc = "done"
    /\ event.bot = "qq"
    /\ event.cmd = "clear"
    /\ event.tome
    /\ ~event.raises
    /\ Matches(echo_hi, event)
    /\ Matches(ai_chat, event)
    /\ ran = {"clear_cmd"}

(***************************************************************************)
(* The AI chat turn: handle_ai_chat and get_openai_response.               *)
(* Texts are sequences of characters, so that strip(), lower() and the     *)
(* keyword tests (`kw in text`) are computed as the code does. A Chinese   *)
(* character is written as its pinyin syllable ("bu", "que", "ren", ...),  *)
(* one string per character.                                               *)
(***************************************************************************)
Range(f) == { f[i] : i \in DOMAIN f }

\* str.lower() on the characters the model's texts use
LowerChar(c) ==
    CASE c = "O" -> "o"
      [] c = "K" -> "k"
      [] c = "Y" -> "y"
      [] c = "E" -> "e"
      [] c = "S" -> "s"
      [] OTHER   -> c
Lower(t) == [i \in 1..Len(t) |-> LowerChar(t[i])]

\* str.strip()
RECURSIVE LStrip(_)
LStrip(t) == IF t # <<>> /\ Head(t) = " " THEN LStrip(Tail(t)) ELSE t
Strip(t) == Reversed(LStrip(Reversed(LStrip(t))))

\* `kw in text`
Contains(t, kw) ==
    \E i \in 0..(Len(t) - Len(kw)) : SubSeq(t, i + 1, i + Len(kw)) = kw
ContainsAny(t, kws) == \E kw \in kws : Contains(t, kw)

negation_keywords ==
    { <<"bu">>, <<"bie">>, <<"bu", "yao">>, <<"bu", "yong">>, <<"qu", "xiao">>,
      <<"suan", "le">>, <<"bu", "xing">>, <<"bu", "dui">> }
confirmation_keywords ==
    { <<"que", "ren">>, <<"shi">>, <<"hao">>, <<"ke", "yi3">>, <<"tong", "yi4">>,
      <<"y", "e", "s">>, <<"o", "k">>, <<"que", "ding">> }
warning_keywords ==
    { <<"jing", "gao">>, <<"que", "ren">>, <<"chong", "ma">>, <<"duo", "bian", "ma">>,
      <<"r", "e", "q", "u", "i", "r", "e", "s", "C", "o", "n", "f", "i", "r", "m",
        "a", "t", "i", "o", "n">> }

\* The fixed replies of get_openai_response and handle_ai_chat (shortened to
\* their distinctive words; none of them holds a warning keyword).
TookTooLong == <<"chu", "li", "tai", "jiu", "le">>
ServiceUnavailableMutRaw == <<"str(e)">>
ServiceUnavailable == <<"zan", "shi2", "bu", "ke", "yong">>
NoReply == <<"mei", "you", "hui", "fu">>
HandlerError == <<"chu1", "cuo", "le">>
Greeting == <<"ni", "hao", "ya">>
ContactAdmin == <<"wei", "pei", "zhi", "lian", "xi", "guan", "li", "yuan">>
NoText == <<>>          \* None or "": a falsy content

\* What a user may type (event.get_plaintext()).
UserMessages ==
    { <<" ", "que", "ren">>, <<"en">>, <<"bu", " ", "O", "K">>, <<" ">> }
ModelTexts ==
    { <<"chong", "ma", "?">>,        \* names the warning
      <<"yi", "zhan", "yong">>,        \* describes it in other words
      NoText }

max_iterations == 6
MAX_HISTORY_MESSAGES == 30
warning_lookback == 30

\* ---- tools (skills registry) and the backend they call

\* The event of the turn's sender, as extract_platform_info reads it.
TurnEvent == [bot |-> "qq", author |-> "u1"]

\* openai_chat.extract_platform_info
\* ev.author is str(from_.id) / str(author.id), "" when the event has no sender
\* field; a QQ event without author falls back to its user_id attribute.
extract_platform_info(ev) ==
    IF ev.bot = "telegram" THEN <<"telegram", ev.author>>
    ELSE IF ev.bot = "qq"
    THEN IF ev.author # "" THEN <<"qq", ev.author>>
         ELSE <<"qq", IF "user_id" \in DOMAIN ev THEN ev.user_id ELSE "">>
    ELSE <<"unknown", "">>

\* skills_manager.tool_functions: the names the registry holds
ToolFunctions ==
    { "keytao_create_phrase", "keytao_batch_create_phrases", "keytao_submit_batch",
      "keytao_lookup_by_word" }

\* The parameters of each tool function: those without a default, and all.
RequiredParams(name) ==
    CASE name = "keytao_create_phrase" -> {"platform", "platform_id", "word", "code"}
      [] name = "keytao_batch_create_phrases" -> {"platform", "platform_id", "items"}
      [] name = "keytao_submit_batch" -> {"platform", "platform_id", "batch_id"}
      [] name = "keytao_lookup_by_word" -> {"word"}
AllParams(name) ==
    CASE name = "keytao_create_phrase" ->
            {"platform", "platform_id", "word", "code", "action", "old_word",
             "type", "remark", "confirmed"}
      [] name = "keytao_batch_create_phrases" ->
            {"platform", "platform_id", "items", "confirmed"}
      [] name = "keytao_submit_batch" -> {"platform", "platform_id", "batch_id"}
      [] name = "keytao_lookup_by_word" -> {"word"}

\* tool_func(**arguments) binds: no parameter missing, none unexpected
Binds(name, a) ==
    /\ RequiredParams(name) \subseteq DOMAIN a
    /\ DOMAIN a \subseteq AllParams(name)

\* dict.get(key, default)
GetOr(a, key, default) == IF key \in DOMAIN a THEN a[key] ELSE default

\* dict[key] = value
SetKey(a, key, value) ==
    [k \in DOMAIN a \cup {key} |-> IF k = key THEN value ELSE a[k]]

\* Tool results, as the JSON object handed back to the model: whether it has
\* the keys the orchestrator or the claims read.
JsonSuccess == [error |-> FALSE, success |-> TRUE,
                requiresConfirmation |-> FALSE, warnings |-> FALSE]
JsonWarning == [error |-> FALSE, success |-> FALSE,
                requiresConfirmation |-> TRUE, warnings |-> TRUE]
JsonFailure == [error |-> FALSE, success |-> FALSE,
                requiresConfirmation |-> FALSE, warnings |-> FALSE]
JsonError   == [error |-> TRUE, success |-> FALSE,
                requiresConfirmation |-> FALSE, warnings |-> FALSE]

\* What the backend answers: 200 success, a body asking for confirmation
\* (200 or 400), or a failure (404, 5xx, timeout).
BackendResponses == { "ok", "warn", "fail" }
FromBackend(resp) ==
    CASE resp = "ok" -> JsonSuccess
      [] resp = "warn" -> JsonWarning
      [] resp = "fail" -> JsonFailure

Returned(json) == [raised |-> FALSE, request |-> NoRequest, json |-> json]
Raised == [raised |-> TRUE, request |-> NoRequest, json |-> JsonError]

\* keytao-create/tools.py keytao_create_phrase
keytao_create_phrase(a, token, resp) ==
    IF ~token THEN Returned(JsonFailure)
    ELSE [raised |-> FALSE,
          request |-> [sent |-> TRUE, endpoint |-> "POST pull-requests/batch",
                       identity |-> <<a.platform, a.platform_id>>,
                       confirmed |-> GetOr(a, "confirmed", FALSE),
                       wca |-> <<a.word, a.code, GetOr(a, "action", "Create")>>,
                       requests |-> << "POST pull-requests/batch" >>,
                       body |-> { "platform", "platformId", "items", "confirmed" },
                       type |-> GetOr(a, "type", "Phrase"),
                       batch |-> ""],
          json |-> FromBackend(resp)]

\* keytao-create/tools.py keytao_batch_create_phrases
keytao_batch_create_phrases(a, token, resp) ==
    IF ~token THEN Returned(JsonFailure)
    ELSE IF \E i \in DOMAIN a.items : ~a.items[i].isdict
         THEN Raised            \* item.get on a non-dict, outside the try
         ELSE [raised |-> FALSE,
               request |-> [sent |-> TRUE, endpoint |-> "POST pull-requests/batch",
                            identity |-> <<a.platform, a.platform_id>>,
                            confirmed |-> GetOr(a, "confirmed", FALSE),
                            wca |-> <<"", "", "Create">>,
                            requests |-> << "POST pull-requests/batch" >>,
                            body |-> { "platform", "platformId", "items", "confirmed" },
                            type |-> "Phrase",
                            batch |-> ""],
               json |-> FromBackend(resp)]

\* keytao-create/tools.py keytao_submit_batch
keytao_submit_batch(a, token, resp) ==
    IF ~token THEN Returned(JsonFailure)
    ELSE [raised |-> FALSE,
          request |-> [sent |-> TRUE, endpoint |-> "POST batches/{id}/submit",
                       identity |-> <<a.platform, a.platform_id>>,
                       confirmed |-> FALSE,
                       wca |-> <<"", "", "">>,
                       requests |-> << "POST batches/{id}/submit" >>,
                       body |-> { "platform", "platformId" },
                       type |-> "",
                       batch |-> a.batch_id],
          json |-> FromBackend(resp)]

\* keytao-lookup/tools.py keytao_lookup_by_word: a read; a failed request is
\* returned as {"success": false, "error": ...}
keytao_lookup_by_word(a, resp) ==
    Returned(IF resp = "fail" THEN JsonError ELSE JsonSuccess)

MutationTools ==
    { "keytao_create_phrase", "keytao_batch_create_phrases", "keytao_submit_batch" }

\* openai_chat.call_tool_function: [failure, request, json]
InjectedTools == { "keytao_create_phrase", "keytao_submit_batch" }

call_tool_function(tool_name, arguments, ev, token, resp) ==
    IF tool_name \notin ToolFunctions
    THEN [failure |-> "unknown_tool", request |-> NoRequest, json |-> JsonError]
    ELSE LET info == extract_platform_info(ev)
             a == IF tool_name \in InjectedTools
                  THEN SetKey(SetKey(arguments, "platform", info[1]),
                              "platform_id", info[2])
                  ELSE arguments
         IN  IF ~Binds(tool_name, a)
             THEN [failure |-> "type_error", request |-> NoRequest, json |-> JsonError]
             ELSE LET r == CASE tool_name = "keytao_create_phrase" ->
                                    keytao_create_phrase(a, token, resp)
                             [] tool_name = "keytao_batch_create_phrases" ->
                                    keytao_batch_create_phrases(a, token, resp)
                             [] tool_name = "keytao_submit_batch" ->
                                    keytao_submit_batch(a, token, resp)
                             [] tool_name = "keytao_lookup_by_word" ->
                                    keytao_lookup_by_word(a, resp)
                  IN  IF r.raised
                      THEN [failure |-> "tool_raised", request |-> NoRequest,
                            json |-> JsonError]
                      ELSE [failure |-> "none", request |-> r.request, json |-> r.json]

\* ---- the confirmation safety net of get_openai_response

\* The scan of the last 30 messages for an unresolved warning.
HadWarning(msgs) ==
    LET check_count == Min(warning_lookback, Len(msgs))
    IN  \E i \in (Len(msgs) - check_count + 1)..Len(msgs) :
            \/ /\ msgs[i].role = "tool"
               /\ (msgs[i].content.requiresConfirmation \/ msgs[i].content.warnings)
            \/ /\ msgs[i].role = "assistant"
               /\ msgs[i].content # NoText
               /\ ContainsAny(msgs[i].content, warning_keywords)

has_negation(text) == ContainsAny(Lower(Strip(text)), negation_keywords)
is_confirming(text) == ContainsAny(Lower(Strip(text)), confirmation_keywords)

AutoFixMutAlways(function_name, function_args, text, msgs) ==
    SetKey(function_args, "confirmed", TRUE)

\* The arguments the tool is called with after the safety net.
AutoFix(function_name, function_args, text, msgs) ==
    IF /\ function_name = "keytao_create_phrase"
       /\ is_confirming(text)
       /\ ~GetOr(function_args, "confirmed", FALSE)
       /\ ~has_negation(text)
       /\ HadWarning(msgs)
    THEN SetKey(function_args, "confirmed", TRUE)
    ELSE function_args

(***************************************************************************)
(* The AI chat turn: handle_ai_chat and get_openai_response                *)
(***************************************************************************)
\* openai_chat.get_conversation_key
get_conversation_key(ev) == extract_platform_info(ev)

SystemMessage == [role |-> "system", content |-> <<"SYSTEM_PROMPT">>]

\* The tool calls a response of the LLM may carry: [name, json, args], where
\* json says whether function.arguments parses and args is what it parses to.
PlainLookup == [name |-> "keytao_lookup_by_word", json |-> "ok", args |-> [word |-> "w1"]]
CreateArgs ==
    { [word |-> "w1", code |-> "c1"],
      [word |-> "w1", code |-> "c1", confirmed |-> TRUE],
      [word |-> "w2", code |-> "c1", confirmed |-> TRUE],
      [word |-> "w1", code |-> "c1", platform |-> "telegram", platform_id |-> "u1"],
      [word |-> "w1", code |-> "c1", action |-> "Delete"],
      [word |-> "w1"] }
BatchArgs ==
    { [items |-> << [isdict |-> TRUE] >>],
      [platform |-> "telegram", platform_id |-> "u1", items |-> << [isdict |-> TRUE] >>],
      [platform |-> "qq", platform_id |-> "u1", items |-> << [isdict |-> FALSE] >>] }
SubmitArgs ==
    { [batch_id |-> "b1", platform |-> "telegram", platform_id |-> "u1"] }
OddCalls ==
    { [name |-> "keytao_create_phrase", json |-> "ok", args |-> a] : a \in CreateArgs }
    \cup { [name |-> "keytao_batch_create_phrases", json |-> "ok", args |-> a] : a \in BatchArgs }
    \cup { [name |-> "keytao_submit_batch", json |-> "ok", args |-> a] : a \in SubmitArgs }
    \cup { [name |-> "keytao_delete_phrase", json |-> "ok", args |-> [word |-> "w1"]],
           [name |-> "keytao_create_phrase", json |-> "bad", args |-> [word |-> "w1"]] }
ToolCalls == { PlainLookup } \cup OddCalls
MaxCalls == 2
ToolCallLists == UNION { [1..n -> ToolCalls] : n \in 1..MaxCalls }

\* The usual answer of the backend to a call: a create that is not confirmed
\* meets an occupied code, everything else succeeds.
Expected(name, a) ==
    IF name = "keytao_create_phrase" /\ ~GetOr(a, "confirmed", FALSE)
    THEN "warn" ELSE "ok"

\* What a response costs of the budget of unusual behaviour.
Cost(content, calls) ==
    Len(calls)
    - (IF \E i \in DOMAIN calls : calls[i] = PlainLookup THEN 1 ELSE 0)
    + (IF content = NoText THEN 0 ELSE 1)

\* An empty table, BOT_API_TOKEN configured, ARK_API_KEY configured or not,
\* nobody has written yet.
InitTurn ==
    /\ StoreIdle
    /\ DispatchIdle
    /\ SkillIdle
    /\ botToken = TRUE
    /\ apiKey \in BOOLEAN
    /\ tpc = "idle"
    /\ plaintext = <<>>
    /\ messages = <<>>
    /\ iteration = 0
    /\ nReq = 0
    /\ pending = <<>>
    /\ reply = <<>>
    /\ lastCall = NoCall
    /\ warned = {}
    /\ curWarn = FALSE
    /\ prevWarn = FALSE
    /\ turnsLeft = MaxTurns
    /\ oddLeft = MaxOdd

\* handle_ai_chat up to the call of get_openai_response, and the start of
\* get_openai_response up to the loop.
ReceiveChat ==
    /\ tpc = "idle"
    /\ turnsLeft > 0
    /\ \E text \in UserMessages :
        /\ clock' = clock + 1
        /\ plaintext' = text
        /\ turnsLeft' = turnsLeft - 1
        /\ LET message_text == Strip(text)
               key == get_conversation_key(TurnEvent)
               history == GetHistory(rows, key[1], key[2], MAX_HISTORY_MESSAGES)
           IN  IF message_text = NoText
               THEN /\ reply' = Greeting
                    /\ messages' = <<>>
                    /\ tpc' = "idle"
                    /\ prevWarn' = FALSE
               ELSE IF ~apiKey
               THEN \* get_openai_response returns before any request
                    /\ reply' = ContactAdmin
                    /\ messages' = <<>>
                    /\ tpc' = "reply"
                    /\ UNCHANGED prevWarn
               ELSE /\ reply' = NoText
                    /\ messages' =
                          <<SystemMessage>>
                          \o [i \in 1..Len(history) |->
                                [role |-> history[i].role, content |-> history[i].content]]
                          \o << [role |-> "user", content |-> message_text] >>
                    /\ tpc' = "llm"
                    /\ UNCHANGED prevWarn
        /\ iteration' = 0
        /\ nReq' = 0
        /\ pending' = <<>>
        /\ lastCall' = NoCall
        /\ curWarn' = FALSE
        /\ UNCHANGED <<rows, nextId, lastOp, got, deleted, rounds>>
        /\ UNCHANGED <<botToken, apiKey, warned, oddLeft>>
        /\ UNCHANGED <<dispatchVars, skillVars>>

\* for iteration in range(max_iterations): whether the loop body runs again
LoopContinuesMutOffByOne(i) == i <= max_iterations

LoopContinues(i) == i < max_iterations

\* One chat-completion request of the loop is made; the actions below are
\* the ways it can come back.
Request ==
    /\ tpc = "llm"
    /\ LoopContinues(iteration)
    /\ iteration' = iteration + 1
    /\ nReq' = nReq + 1
    /\ lastCall' = NoCall

\* get_openai_response returns: its messages list is gone.
Return(text) ==
    /\ reply' = text
    /\ tpc' = "reply"
    /\ pending' = <<>>
    /\ messages' = <<>>

\* The request raises (timeout, HTTP error): the except of get_openai_response.
LLMError ==
    /\ Request
    /\ oddLeft > 0
    /\ oddLeft' = oddLeft - 1
    /\ Return(ServiceUnavailable)
    /\ UNCHANGED <<botToken, apiKey, plaintext, warned, curWarn, prevWarn, turnsLeft>>
    /\ UNCHANGED storeVars
    /\ UNCHANGED <<dispatchVars, skillVars>>

\* The response has no choices.
LLMNoChoices ==
    /\ Request
    /\ oddLeft > 0
    /\ oddLeft' = oddLeft - 1
    /\ Return(NoReply)
    /\ UNCHANGED <<botToken, apiKey, plaintext, warned, curWarn, prevWarn, turnsLeft>>
    /\ UNCHANGED storeVars
    /\ UNCHANGED <<dispatchVars, skillVars>>

\* finish_reason is "stop" or there are no tool calls: the content is returned
\* as it is (possibly empty).
LLMFinal ==
    /\ Request
    /\ \E content \in ModelTexts : Return(content)
    /\ UNCHANGED <<botToken, apiKey, plaintext, warned, curWarn, prevWarn, turnsLeft, oddLeft>>
    /\ UNCHANGED storeVars
    /\ UNCHANGED <<dispatchVars, skillVars>>

\* Tool calls with a finish_reason that is neither "stop" nor "tool_calls"
\* (e.g. "length"): the content, or the no-reply apology.
LLMOtherFinish ==
    /\ Request
    /\ oddLeft > 0
    /\ oddLeft' = oddLeft - 1
    /\ \E content \in ModelTexts :
          Return(IF content = NoText THEN NoReply ELSE content)
    /\ UNCHANGED <<botToken, apiKey, plaintext, warned, curWarn, prevWarn, turnsLeft>>
    /\ UNCHANGED storeVars
    /\ UNCHANGED <<dispatchVars, skillVars>>

\* finish_reason "tool_calls": the assistant message is appended and the
\* calls are executed one by one.
LLMToolCalls ==
    /\ Request
    /\ \E content \in ModelTexts, calls \in ToolCallLists :
        /\ Cost(content, calls) <= oddLeft
        /\ Cost(content, calls) > 0 => nReq < MaxOddRound
        /\ oddLeft' = oddLeft - Cost(content, calls)
        /\ LET tool_calls == [i \in DOMAIN calls |->
                                [id |-> <<nReq + 1, i>>, name |-> calls[i].name,
                                 json |-> calls[i].json, args |-> calls[i].args]]
           IN  /\ messages' = Append(messages,
                                [role |-> "assistant", content |-> content,
                                 tool_calls |-> tool_calls])
               /\ pending' = tool_calls
    /\ tpc' = "tools"
    /\ UNCHANGED <<botToken, apiKey, plaintext, reply, warned, curWarn, prevWarn, turnsLeft>>
    /\ UNCHANGED storeVars
    /\ UNCHANGED <<dispatchVars, skillVars>>

ToolMessageMutNoId(tc, content) ==
    [role |-> "tool", tool_call_id |-> <<0, 0>>, name |-> tc.name, content |-> content]

\* The role:tool message appended for an executed call
ToolMessage(tc, content) ==
    [role |-> "tool", tool_call_id |-> tc.id, name |-> tc.name, content |-> content]

\* The body of "for tool_call in choice.message.tool_calls" for one call.
ExecToolCall ==
    /\ tpc = "tools"
    /\ pending # <<>>
    /\ LET tc == Head(pending)
       IN  IF tc.json = "bad"
           THEN \* json.loads raises, outside call_tool_function
                /\ Return(ServiceUnavailable)
                /\ lastCall' = [NoCall EXCEPT !.id = tc.id, !.name = tc.name,
                                              !.failure = "bad_json"]
                /\ UNCHANGED <<warned, curWarn, oddLeft>>
           ELSE \E resp \in BackendResponses :
                LET function_args == AutoFix(tc.name, tc.args, plaintext, messages)
                    out == call_tool_function(tc.name, function_args, TurnEvent,
                                              botToken, resp)
                    create == tc.name = "keytao_create_phrase" /\ out.failure = "none"
                    wca == IF create
                           THEN <<function_args.word, function_args.code,
                                  GetOr(function_args, "action", "Create")>>
                           ELSE <<"", "", "">>
                    unusual == IF resp = Expected(tc.name, function_args) THEN 0 ELSE 1
                IN  /\ tc.name = "keytao_lookup_by_word" => resp # "warn"
                    /\ unusual <= oddLeft
                    /\ unusual > 0 => nReq <= MaxOddRound
                    /\ oddLeft' = oddLeft - unusual
                    /\ messages' = Append(messages, ToolMessage(tc, out.json))
                    /\ lastCall' = [id |-> tc.id, name |-> tc.name,
                                    failure |-> out.failure,
                                    executed |-> out.failure = "none",
                                    confirmed |-> create /\ GetOr(function_args, "confirmed", FALSE),
                                    wca |-> wca,
                                    priorWarning |-> wca \in warned,
                                    request |-> out.request]
                    /\ warned' = IF create /\ out.json.requiresConfirmation
                                 THEN warned \cup {wca} ELSE warned
                    /\ curWarn' = (curWarn \/ (create /\ out.json.requiresConfirmation))
                    /\ pending' = Tail(pending)
                    /\ tpc' = IF Tail(pending) = <<>> THEN "llm" ELSE "tools"
                    /\ UNCHANGED reply
    /\ UNCHANGED <<botToken, apiKey, plaintext, iteration, nReq, prevWarn, turnsLeft>>
    /\ UNCHANGED storeVars
    /\ UNCHANGED <<dispatchVars, skillVars>>

\* The loop ran max_iterations times.
LoopExhausted ==
    /\ tpc = "llm"
    /\ ~LoopContinues(iteration)
    /\ Return(TookTooLong)
    /\ lastCall' = NoCall
    /\ UNCHANGED <<botToken, apiKey, plaintext, iteration, nReq, warned, curWarn,
                   prevWarn, turnsLeft, oddLeft>>
    /\ UNCHANGED storeVars
    /\ UNCHANGED <<dispatchVars, skillVars>>

\* handle_ai_chat after get_openai_response: the error reply for an empty
\* response, else add_to_history and the delivery.
FinishTurn ==
    /\ tpc = "reply"
    /\ IF reply = NoText
       THEN /\ reply' = HandlerError
            /\ UNCHANGED <<rows, nextId, clock>>
       ELSE \E d \in 0..1 :
            LET key == get_conversation_key(TurnEvent)
                st == AddConversationRound(<<rows, nextId>>, key[1], key[2],
                                           Strip(plaintext), reply, clock, clock + d)
            IN  /\ rows' = st[1]
                /\ nextId' = st[2]
                /\ clock' = clock + d
                /\ UNCHANGED reply
    /\ tpc' = "idle"
    /\ UNCHANGED messages
    /\ iteration' = 0
    /\ nReq' = 0
    /\ pending' = <<>>
    /\ lastCall' = NoCall
    /\ prevWarn' = curWarn
    /\ curWarn' = FALSE
    /\ UNCHANGED <<botToken, apiKey, plaintext, warned, turnsLeft, oddLeft>>
    /\ UNCHANGED <<lastOp, got, deleted, rounds>>
    /\ UNCHANGED <<dispatchVars, skillVars>>

NextTurn ==
    \/ ReceiveChat
    \/ LLMError
    \/ LLMNoChoices
    \/ LLMFinal
    \/ LLMOtherFinish
    \/ LLMToolCalls
    \/ ExecToolCall
    \/ LoopExhausted
    \/ FinishTurn

SpecTurn == InitTurn /\ [][NextTurn]_vars

(***************************************************************************)
(* One tool call through call_tool_function, on its own                    *)
(***************************************************************************)
\* Words and codes as sequences of characters.
Words ==
    { <<"h", "i">>, <<"qi">>, <<"ru", "guo">>, <<"!">>, <<"w", "w", "w", ".", "x">> }
Codes == { <<"c", "a">>, <<";", "a">> }

\* The arguments the model may send with a tool call.
CreateCallArgs ==
    { [word |-> w, code |-> c] : w \in Words, c \in Codes }
    \cup { [word |-> w, code |-> c, type |-> t] :
             w \in Words, c \in Codes, t \in { "Phrase", "Single" } }
    \cup { [word |-> w, code |-> c, confirmed |-> TRUE] : w \in Words, c \in Codes }
    \cup { [word |-> w, code |-> c, action |-> "Delete"] : w \in Words, c \in Codes }
    \cup { [word |-> w] : w \in Words }
NoArgs == [k \in {} |-> ""]
SubmitCallArgs ==
    { NoArgs, [batch_id |-> "b1"], [batch_id |-> "b1", platform |-> "telegram"] }
SkillCalls ==
    { [tool |-> "keytao_create_phrase", arguments |-> a, token |-> t, resp |-> r] :
        a \in CreateCallArgs, t \in BOOLEAN, r \in BackendResponses }
    \cup { [tool |-> "keytao_submit_batch", arguments |-> a, token |-> t, resp |-> r] :
        a \in SubmitCallArgs, t \in BOOLEAN, r \in BackendResponses }
    \cup { [tool |-> "keytao_batch_create_phrases", arguments |-> a, token |-> t, resp |-> r] :
        a \in BatchArgs, t \in BOOLEAN, r \in BackendResponses }

InitTool ==
    /\ StoreIdle
    /\ DispatchIdle
    /\ TurnIdle
    /\ skIn \in SkillCalls
    /\ skOut = NoSkillCall

\* call_tool_function(tool_name, arguments, bot, event) for the event of the
\* sender.
CallTool ==
    /\ skOut = NoSkillCall
    /\ LET out == call_tool_function(skIn.tool, skIn.arguments, TurnEvent,
                                     skIn.token, skIn.resp)
       IN  skOut' = [tool |-> skIn.tool, failure |-> out.failure,
                     request |-> out.request, json |-> out.json]
    /\ UNCHANGED skIn
    /\ UNCHANGED <<storeVars, dispatchVars, turnVars>>

NextTool == CallTool

SpecTool == InitTool /\ [][NextTool]_vars

(***************************************************************************)
(* The lookup skill: keytao-lookup/tools.py                                *)
(***************************************************************************)
MaxResp == 3
MaxEntries == 7
MaxPage == 2
MaxPages == 3
FullPages == 2

LookupWords == { "ru", "guo" }
LookupCodes == { <<"r", "i">>, <<"r", "i", "g">> }
Weights == { 100, 101, 110 }

\* One entry of a backend "phrases" list.
Phrase(w, c, wt) == [word |-> w, code |-> c, weight |-> wt, type |-> "Phrase"]
Phrases == { Phrase(w, c, wt) : w \in LookupWords, c \in LookupCodes, wt \in Weights }

type_labels ==
    [t \in { "Single", "Phrase", "Supplement", "Symbol", "Link", "CSS",
             "CSSSingle", "English" } |->
        CASE t = "Single" -> "danzi"
          [] t = "Phrase" -> "cizu"
          [] t = "Supplement" -> "buchongcitiao"
          [] t = "Symbol" -> "fuhao"
          [] t = "Link" -> "lianjie"
          [] t = "CSS" -> "shengbibi"
          [] t = "CSSSingle" -> "shengbibidanzi"
          [] t = "English" -> "yingwen"]
type_label(t) == IF t \in DOMAIN type_labels THEN type_labels[t] ELSE t

position_labels ==
    [i \in 0..5 |->
        CASE i = 0 -> ""
          [] i = 1 -> "erchong"
          [] i = 2 -> "sanchong"
          [] i = 3 -> "sichong"
          [] i = 4 -> "wuchong"
          [] i = 5 -> "liuchong"]
\* position_labels.get(idx, f"{idx + 1}重")
position_label(idx) ==
    IF idx \in DOMAIN position_labels
    THEN position_labels[idx]
    ELSE ToString(idx + 1) \o "chong"

\* sorted(s, key=...): ascending by key, equal keys keep their order
StableSort(s, keys) ==
    LET n == Len(s)
        Rank(i) == Cardinality({ j \in 1..n :
                      keys[j] < keys[i] \/ (keys[j] = keys[i] /\ j < i) }) + 1
    IN  [k \in 1..n |-> s[CHOOSE i \in 1..n : Rank(i) = k]]

sorted_by_weightMutUnsorted(s) == s
sorted_by_weight(s) == StableSort(s, [i \in 1..Len(s) |-> s[i].weight])

exact_matchesMutAll(phrases, code) == phrases
exact_matches(phrases, code) ==
    LET Same(p) == p.code = code IN SelectSeq(phrases, Same)

\* A backend answer to one GET: the request failed (HTTP error, timeout), or
\* the "phrases" list of the body.
FailedGet == [ok |-> FALSE, phrases |-> <<>>]
Got(ps) == [ok |-> TRUE, phrases |-> ps]

\* keytao_lookup_by_code(code), resp being the answer to its GET
keytao_lookup_by_code(code, resp) ==
    IF ~resp.ok
    THEN [success |-> FALSE, code |-> code, error |-> TRUE, phrases |-> <<>>]
    ELSE LET sorted_phrases == sorted_by_weight(exact_matches(resp.phrases, code))
             n == Len(sorted_phrases)
         IN  [success |-> TRUE, code |-> code, error |-> FALSE,
              phrases |->
                [k \in 1..n |->
                   LET idx == k - 1
                       p == sorted_phrases[k]
                   IN  [word |-> p.word, code |-> p.code, weight |-> p.weight,
                        type |-> p.type, type_label |-> type_label(p.type),
                        position |-> idx,
                        position_label |->
                            IF n > 1 /\ idx > 0 THEN position_label(idx) ELSE ""]]]

\* analyze_duplicates returning None
NoDuplicateInfo == [position |-> -1, position_label |-> "", all_words |-> <<>>]

\* analyze_duplicates(code, target_word, target_weight), resp being the answer
\* to the nested by-code GET: [found, info]
analyze_duplicates(code, target_word, target_weight, resp) ==
    LET result == keytao_lookup_by_code(code, resp)
        sorted_phrases == sorted_by_weight(result.phrases)
        hits == { k \in 1..Len(sorted_phrases) :
                    /\ sorted_phrases[k].word = target_word
                    /\ sorted_phrases[k].weight = target_weight }
        position == IF hits = {} THEN -1
                    ELSE (CHOOSE k \in hits : \A h \in hits : k <= h) - 1
    IN  IF ~result.success \/ result.phrases = <<>> \/ Len(result.phrases) <= 1
           \/ position = -1
        THEN [found |-> FALSE, info |-> NoDuplicateInfo]
        ELSE [found |-> TRUE,
              info |->
                [position |-> position,
                 position_label |->
                    IF position > 0 THEN position_label(position) ELSE "",
                 all_words |->
                    [k \in 1..Len(sorted_phrases) |->
                        [word |-> sorted_phrases[k].word,
                         weight |-> sorted_phrases[k].weight,
                         position |-> k - 1,
                         label |-> IF k - 1 > 0 THEN position_label(k - 1) ELSE ""]]]]

\* "weight suggests duplicates (last digit not 0)"
suggests_duplicatesMutAlways(phrase_weight) == TRUE
suggests_duplicates(phrase_weight) == phrase_weight % 10 # 0

RECURSIVE Concat(_, _, _)
Concat(more, page, last) ==
    IF page > last THEN <<>>
    ELSE more[page].phrases \o Concat(more, page + 1, last)

\* The pages keytao_lookup_by_word asks the by-word endpoint for, in order:
\* page 1, then range(2, total_pages + 1) until a GET raises.
by_word_requestsMutAll(page1, more) ==
    [i \in 1..(IF page1.ok /\ page1.totalPages > 1 THEN page1.totalPages ELSE 1) |-> i]

by_word_requests(page1, more) ==
    IF ~page1.ok THEN <<1>>
    ELSE LET total_pages == page1.totalPages
             failed == { p \in 2..total_pages : ~more[p].ok }
             last == IF failed # {}
                     THEN CHOOSE p \in failed : \A q \in failed : p <= q
                     ELSE IF total_pages > 1 THEN total_pages ELSE 1
         IN  [i \in 1..last |-> i]

\* keytao_lookup_by_word(word): page1 is the answer to the first GET, more[p]
\* the answer to the GET of page p, backend[c] the answer to a by-code GET of
\* code c.
keytao_lookup_by_word_pages(word, page1, more, backend) ==
    LET total_pages == page1.totalPages
    IN  IF ~page1.ok \/ \E p \in 2..total_pages : ~more[p].ok
        THEN [success |-> FALSE, word |-> word, error |-> TRUE, phrases |-> <<>>]
        ELSE LET all_phrases == page1.phrases \o Concat(more, 2, total_pages)
                 enhanced_phrases ==
                    [k \in 1..Len(all_phrases) |->
                        LET p == all_phrases[k]
                            dup == IF suggests_duplicates(p.weight)
                                   THEN analyze_duplicates(p.code, word, p.weight,
                                                           backend[p.code])
                                   ELSE [found |-> FALSE, info |-> NoDuplicateInfo]
                        IN  [word |-> p.word, code |-> p.code, weight |-> p.weight,
                             type |-> p.type, type_label |-> type_label(p.type),
                             has_duplicate_info |-> dup.found,
                             duplicate_info |-> dup.info]]
             IN  [success |-> TRUE, word |-> word, error |-> FALSE,
                  phrases |-> StableSort(enhanced_phrases,
                                [k \in 1..Len(enhanced_phrases) |->
                                    Len(enhanced_phrases[k].code)])]

(***************************************************************************)
(* Lookup calls on bounded backend answers                                 *)
(***************************************************************************)
SeqsUpTo(S, n) == UNION { [1..k -> S] : k \in 0..n }

\* Long by-code answers: descending non-contiguous weights, the same with
\* entries of another code around them, and equal weights.
Descending(c, n) ==
    [i \in 1..n |-> Phrase(IF i % 2 = 1 THEN "ru" ELSE "guo", c, 100 + 5 * (n - i))]
Equal(c, n) ==
    [i \in 1..n |-> Phrase(IF i % 2 = 1 THEN "ru" ELSE "guo", c, 100)]
Other(c) == CHOOSE d \in LookupCodes : d # c
LongAnswers(c) ==
    UNION { { Descending(c, n),
              <<Phrase("ru", Other(c), 101)>> \o Descending(c, n)
                    \o <<Phrase("guo", Other(c), 100)>>,
              Equal(c, n) } : n \in (MaxResp + 1)..MaxEntries }

ByCodeShort ==
    { [tool |-> "keytao_lookup_by_code", code |-> c, resp |-> r] :
        c \in LookupCodes,
        r \in {FailedGet} \cup { Got(ps) : ps \in SeqsUpTo(Phrases, MaxResp) } }
ByCodeLong ==
    UNION { { [tool |-> "keytao_lookup_by_code", code |-> c, resp |-> Got(ps)] :
                ps \in LongAnswers(c) } : c \in LookupCodes }

\* by-word answers: entries of any word (the backend may return near-matches)
PageEntries ==
    { Phrase("ru", <<"r", "i">>, 100), Phrase("ru", <<"r", "i">>, 101),
      Phrase("ru", <<"r", "i", "g">>, 101), Phrase("guo", <<"r", "i">>, 101) }
FirstPages ==
    { [ok |-> TRUE, phrases |-> ps, totalPages |-> t] :
        ps \in SeqsUpTo(PageEntries, MaxPage), t \in 0..MaxPages }
MorePages ==
    { FailedGet, Got(<<>>), Got(<<Phrase("ru", <<"r", "i">>, 101)>>),
      Got(<<Phrase("ru", <<"r", "i", "g">>, 100)>>) }
\* The groups a by-code GET of code c may answer with.
Groups(c) ==
    { FailedGet,
      Got(<<>>),
      Got(<<Phrase("ru", c, 101)>>),
      Got(<<Phrase("guo", c, 100), Phrase("ru", c, 101)>>),
      Got(<<Phrase("ru", c, 101), Phrase("guo", c, 100)>>),
      Got(<<Phrase("guo", c, 100), Phrase("guo", c, 101)>>),
      Got(<<Phrase("guo", c, 101), Phrase("ru", c, 100)>>),
      Got(<<Phrase("ru", c, 101), Phrase("guo", Other(c), 100)>>) }
Backends == { b \in [LookupCodes -> UNION { Groups(c) : c \in LookupCodes }] :
                \A c \in LookupCodes : b[c] \in Groups(c) }
ByWordFailed ==
    { [tool |-> "keytao_lookup_by_word", word |-> "ru",
       page1 |-> [ok |-> FALSE, phrases |-> <<>>, totalPages |-> 1],
       more |-> [p \in 2..MaxPages |-> FailedGet], backend |-> b] : b \in Backends }
\* The answers to the GETs of pages 2..t; a page beyond t is never asked for
\* and its answer is left fixed.
MoreUpTo(t) ==
    { m \in [2..MaxPages -> MorePages] :
        \A p \in 2..MaxPages : p > t => m[p] = FailedGet }
\* Calls of up to FullPages pages meet every backend, longer ones a single one.
OneBackend == [c \in LookupCodes |-> Got(<<Phrase("ru", c, 101)>>)]
ByWordCalls(p1) ==
    { [tool |-> "keytao_lookup_by_word", word |-> "ru", page1 |-> p1,
       more |-> m, backend |-> b] :
        m \in MoreUpTo(p1.totalPages),
        b \in (IF p1.totalPages <= FullPages THEN Backends ELSE {OneBackend}) }

InitLookup ==
    /\ StoreIdle
    /\ DispatchIdle
    /\ TurnIdle
    /\ \/ skIn \in ByCodeShort
       \/ skIn \in ByCodeLong
       \/ skIn \in ByWordFailed
       \/ \E p1 \in FirstPages : skIn \in ByWordCalls(p1)
    /\ skOut = NoSkillCall

DoLookupByCode ==
    /\ skOut = NoSkillCall
    /\ skIn.tool = "keytao_lookup_by_code"
    /\ skOut' = [tool |-> skIn.tool,
                 result |-> keytao_lookup_by_code(skIn.code, skIn.resp)]
    /\ UNCHANGED skIn
    /\ UNCHANGED <<storeVars, dispatchVars, turnVars>>

DoLookupByWord ==
    /\ skOut = NoSkillCall
    /\ skIn.tool = "keytao_lookup_by_word"
    /\ skOut' = [tool |-> skIn.tool,
                 result |-> keytao_lookup_by_word_pages(skIn.word, skIn.page1,
                                                        skIn.more, skIn.backend),
                 requests |-> by_word_requests(skIn.page1, skIn.more)]
    /\ UNCHANGED skIn
    /\ UNCHANGED <<storeVars, dispatchVars, turnVars>>

NextLookup == DoLookupByCode \/ DoLookupByWord
SpecLookup == InitLookup /\ [][NextLookup]_vars

(***************************************************************************)
(* Handlers and utilities called on their own: account_bind.py,            *)
(* user_resolver.py                                                        *)
(***************************************************************************)
\* str.upper() on the characters the bind texts use
UpperChar(c) ==
    CASE c = "a" -> "A"
      [] c = "b" -> "B"
      [] c = "c" -> "C"
      [] OTHER -> c
UpperMutIdentity(t) == t
Upper(t) == [i \in DOMAIN t |-> UpperChar(t[i])]

\* str.split(): the maximal runs of non-blank characters
RECURSIVE Split(_)
Split(t) ==
    IF t = <<>> THEN <<>>
    ELSE IF Head(t) = " " THEN Split(Tail(t))
    ELSE LET blanks == { i \in DOMAIN t : t[i] = " " }
             n == IF blanks = {} THEN Len(t) + 1
                  ELSE CHOOSE i \in blanks : \A j \in blanks : i <= j
         IN  <<SubSeq(t, 1, n - 1)>> \o Split(SubSeq(t, n, Len(t)))

\* What a request can come back with: a status with its body, a timeout, or
\* another exception (connection refused, ...).  A body: whether it parses to
\* a JSON object, and the fields the handlers read ("" for an absent one).
NoBody == [json |-> FALSE, success |-> FALSE, found |-> FALSE, message |-> "",
           userName |-> "", userNickname |-> ""]
Bodies ==
    { NoBody }
    \cup [json : {TRUE}, success : BOOLEAN, found : BOOLEAN, message : {"", "m"},
          userName : {"", "un"}, userNickname : {"", "nick"}]
HttpOutcomes ==
    [kind : {"status"}, status : {200, 400, 404, 500}, body : Bodies]
    \cup { [kind |-> k, status |-> 0, body |-> NoBody] : k \in {"timeout", "exception"} }

\* account_bind.handle_bind: the requests made and the replies sent.  finish()
\* sends and raises FinishedException, which "except Exception" of the
\* platform block catches.
handle_bind(bot, text, token, http) ==
    LET parts == Split(Strip(text))
        key == Upper(parts[2])
        Reply(r) == [requests |-> <<>>, replies |-> <<r>>]
        Verify(r) ==
            [requests |-> << [endpoint |-> "POST auth/link/verify", key |-> key,
                              platform |-> bot, platformId |-> TurnEvent.author] >>,
             replies |-> <<r>>]
    IN  IF bot \notin {"qq", "telegram"}
        THEN [requests |-> <<>>,
              replies |-> << <<"unsupported platform">>, <<"platform info failed">> >>]
        ELSE IF Len(parts) < 2
        THEN Reply(IF bot = "qq" THEN <<"help", "[link]">> ELSE <<"help", "https://">>)
        ELSE IF ~token
        THEN Reply(<<"configuration error">>)
        ELSE IF http.kind = "timeout" THEN Verify(<<"timed out">>)
        ELSE IF http.kind = "exception" THEN Verify(<<"failed, try later">>)
        ELSE IF http.status = 200
        THEN IF ~http.body.json
             THEN Verify(<<"failed, try later">>)       \* response.json() raises
             ELSE IF http.body.success
             THEN Verify(<<"bound", IF http.body.userNickname # ""
                                    THEN http.body.userNickname
                                    ELSE http.body.userName>>)
             ELSE Verify(<<"x", IF http.body.message # "" THEN http.body.message
                                ELSE "failed">>)
        ELSE Verify(<<"x", IF http.body.json /\ http.body.message # ""
                           THEN http.body.message ELSE "failed">>)

find_user_by_platformMutNoCheck(platform, platform_id, token, http) ==
    [requests |-> << [endpoint |-> "POST bot/user/find", key |-> <<>>,
                      platform |-> platform, platformId |-> platform_id] >>,
     result |-> "None"]

\* user_resolver.find_user_by_platform: the requests made and what is returned
find_user_by_platform(platform, platform_id, token, http) ==
    IF ~token
    THEN [requests |-> <<>>, result |-> "None"]
    ELSE [requests |-> << [endpoint |-> "POST bot/user/find", key |-> <<>>,
                           platform |-> platform, platformId |-> platform_id] >>,
          result |-> IF /\ http.kind = "status"
                        /\ http.status = 200
                        /\ http.body.json
                        /\ http.body.found
                     THEN "user" ELSE "None"]

\* A result built by the skill itself: {"success": False, "message": ...}
LocalFailure(message) ==
    [from |-> "skill", success |-> FALSE, message |-> message, body |-> NoBody]

keytao_create_phrase_httpMutGeneric(a, token, http) ==
    [requests |-> << [endpoint |-> "POST pull-requests/batch",
                      platform |-> a.platform, platformId |-> a.platform_id,
                      items |-> << [action |-> GetOr(a, "action", "Create"),
                                    word |-> a.word, code |-> a.code,
                                    type |-> GetOr(a, "type", "Phrase")] >>,
                      confirmed |-> GetOr(a, "confirmed", FALSE)] >>,
     result |-> LocalFailure("HTTP failure")]

\* keytao-create/tools.py keytao_create_phrase with the request body and the
\* handling of each response: the requests made and the dict returned
keytao_create_phrase_http(a, token, http) ==
    IF ~token
    THEN [requests |-> <<>>, result |-> LocalFailure("configuration error")]
    ELSE [requests |-> << [endpoint |-> "POST pull-requests/batch",
                           platform |-> a.platform, platformId |-> a.platform_id,
                           items |-> << [action |-> GetOr(a, "action", "Create"),
                                         word |-> a.word, code |-> a.code,
                                         type |-> GetOr(a, "type", "Phrase")] >>,
                           confirmed |-> GetOr(a, "confirmed", FALSE)] >>,
          result |->
            IF http.kind = "timeout" THEN LocalFailure("timed out")
            ELSE IF http.kind = "exception" THEN LocalFailure("create failed: e")
            ELSE IF http.status \in {200, 400}
            THEN IF http.body.json
                 THEN [from |-> "backend", success |-> http.body.success,
                       message |-> http.body.message, body |-> http.body]
                 ELSE LocalFailure("create failed: e")     \* response.json() raises
            ELSE IF http.status = 404 THEN LocalFailure("no linked account, /bind")
            ELSE LocalFailure("HTTP failure")]

CreateHttpArgs ==
    { [platform |-> "qq", platform_id |-> "u1", word |-> <<"ru", "guo">>,
       code |-> <<"c", "a">>],
      [platform |-> "qq", platform_id |-> "u1", word |-> <<"ru", "guo">>,
       code |-> <<"c", "a">>, confirmed |-> TRUE],
      [platform |-> "telegram", platform_id |-> "u1", word |-> <<"qi">>,
       code |-> <<"c", "a">>, confirmed |-> FALSE, action |-> "Delete"] }

BindTexts ==
    { <<"/", "b">>,
      <<"/", "b", " ">>,
      <<"/", "b", " ", "a", "1">>,
      <<" ", "/", "b", " ", " ", "a", "B", " ", "c">>,
      <<"/", "b", " ", "A", "1">> }

\* ---- delivery of the AI reply (openai_chat.py)
MaxReplyLen == 3

\* A response as a sequence of lexemes: a word, a blank, a scheme prefix, the
\* "www." prefix, a dot with a listed extension.
UrlTokens == {"w", " ", "http://", "https://", "www.", ".com"}
Responses == UNION { [1..n -> UrlTokens] : n \in 1..MaxReplyLen }

remove_urlsMutIdentity(text) == text

\* re.sub of url_pattern: in each run of non-blank lexemes the leftmost match
\* starts at the first position that either holds a scheme or "www." followed
\* by something, or is followed further on by a dot with a listed extension;
\* every alternative of the pattern ends in a greedy \S+ or \S*, so the
\* match runs to the end of the run.
RECURSIVE remove_urls(_)
remove_urls(text) ==
    IF text = <<>> THEN <<>>
    ELSE IF Head(text) = " " THEN <<" ">> \o remove_urls(Tail(text))
    ELSE LET blanks == { i \in DOMAIN text : text[i] = " " }
             n == IF blanks = {} THEN Len(text) + 1
                  ELSE CHOOSE i \in blanks : \A j \in blanks : i <= j
             run == SubSeq(text, 1, n - 1)
             Starts(i) ==
                 \/ run[i] \in {"http://", "https://", "ftp://", "www."} /\ i < Len(run)
                 \/ \E j \in (i + 1)..Len(run) : run[j] = ".com"
             starts == { i \in DOMAIN run : Starts(i) }
             m == CHOOSE i \in starts : \A j \in starts : i <= j
         IN  (IF starts = {} THEN run ELSE SubSeq(run, 1, m - 1) \o <<"[link]">>)
             \o remove_urls(SubSeq(text, n, Len(text)))

Attempt(method, text, fails) == [method |-> method, text |-> text, ok |-> method \notin fails]

handle_ai_chat_deliverMutAll(bot, cls, msgId, hasReply, fails, response) ==
    << Attempt("send_with_id", response, fails), Attempt("finish", response, fails) >>

\* handle_ai_chat from the platform test on: the attempts made to deliver a
\* non-empty response, in order, each with its text and whether it raised.
handle_ai_chat_deliver(bot, cls, msgId, hasReply, fails, response) ==
    IF bot = "telegram"
    THEN IF msgId
         THEN LET a1 == Attempt("send_with_id", response, fails)
              IN  IF a1.ok THEN <<a1>>
                  ELSE <<a1, Attempt("finish", response, fails)>>
         ELSE << Attempt("finish", response, fails) >>
    ELSE IF bot = "qq" \/ cls = "Bot"
    THEN LET filtered_response == remove_urls(response)
             a1 == Attempt("send_with_id", filtered_response, fails)
             a2 == Attempt("event_reply", filtered_response, fails)
             a3 == Attempt("finish", filtered_response, fails)
         IN  IF ~msgId THEN <<a3>>
             ELSE IF a1.ok THEN <<a1>>
             ELSE IF hasReply
             THEN IF a2.ok THEN <<a1, a2>> ELSE <<a1, a2, a3>>
             ELSE <<a1, a3>>
    ELSE << Attempt("finish", response, fails) >>

DeliverCalls ==
    { c \in [tool : {"deliver"}, bot : {"telegram", "qq", "other"},
             cls : {"Bot", "OtherBot"}, msgId : BOOLEAN, hasReply : BOOLEAN,
             fails : SUBSET {"send_with_id", "event_reply", "finish"},
             response : Responses] :
        c.bot # "other" => c.cls = "Bot" }

\* ---- the documentation skill (skills/keytao-docs/tools.py)
MaxQueryLen == 2
MaxDocs == 3            \* "[:3]": the documents fetched in one call, at most

\* DOCS_MAPPING, in the order of the dict literal
DOCS_MAPPING ==
    << [keyword |-> "guize", paths |-> << "guide/learn-xkjd/phonetics-rules.md",
                                          "guide/learn-xkjd/stroke-rules.md" >>],
       [keyword |-> "xuexi", paths |-> << "guide/learn-xkjd/index.md",
                                          "guide/start-xkjd/index.md",
                                          "guide/learn-xkjd/layouts.md" >>],
       [keyword |-> "anzhuang", paths |-> << "guide/get-xkjd/download-and-install.md",
                                             "guide/get-xkjd/index.md" >>],
       [keyword |-> "zigen", paths |-> << "guide/learn-xkjd/stroke-rules.md",
                                          "guide/learn-xkjd/layouts.md" >>],
       [keyword |-> "danzi", paths |-> << "guide/start-xkjd/characters.md" >>],
       [keyword |-> "cizu", paths |-> << "guide/start-xkjd/phrases.md" >>],
       [keyword |-> "dinggong", paths |-> << "guide/advance-in-xkjd/top-up.md" >>],
       [keyword |-> "jianma", paths |-> << "guide/advance-in-xkjd/shorthand.md" >>] >>

\* list(dict.fromkeys(l)): the first occurrence of each element, in order
first_seenMutKeep(l) == l
RECURSIVE first_seen(_)
first_seen(l) ==
    IF l = <<>> THEN <<>>
    ELSE LET init == first_seen(SubSeq(l, 1, Len(l) - 1))
             x == l[Len(l)]
         IN  IF \E i \in DOMAIN init : init[i] = x THEN init ELSE Append(init, x)

\* A document is the sequence of its lines; <<>> is the empty text, which is
\* also what fetch_doc_from_github returns for a failed fetch.
clean_markdownMutRaw(content) == content
clean_markdown(content) ==
    LET closing == { i \in 2..Len(content) : content[i] = "---" }
        end_idx == CHOOSE i \in closing : \A j \in closing : i <= j
        lines == IF content # <<>> /\ content[1] = "---" /\ closing # {}
                 THEN SubSeq(content, end_idx + 1, Len(content))
                 ELSE content
        inked == { i \in DOMAIN lines : lines[i] # "" }
        lo == CHOOSE i \in inked : \A j \in inked : i <= j
        hi == CHOOSE i \in inked : \A j \in inked : j <= i
    IN  IF inked = {} THEN <<>> ELSE SubSeq(lines, lo, hi)    \* str.strip()

\* keytao_fetch_docs(query) where the i-th fetch returns fetched[i]: the paths
\* fetched, in order, and the result.
keytao_fetch_docs(query, fetched) ==
    LET RECURSIVE Extend(_)
        Extend(n) == IF n = 0 THEN <<>>
                     ELSE Extend(n - 1)
                          \o (IF Contains(query, <<DOCS_MAPPING[n].keyword>>)
                              THEN DOCS_MAPPING[n].paths ELSE <<>>)
        matched == Extend(Len(DOCS_MAPPING))
        all == IF matched = <<>> THEN << "guide/index.md" >> ELSE matched
        deduped == first_seen(all)
        docs_to_fetch == SubSeq(deduped, 1, IF Len(deduped) < MaxDocs THEN Len(deduped)
                                             ELSE MaxDocs)
        Title(cleaned, path) ==
            IF \E i \in DOMAIN cleaned : cleaned[i] = "# t" THEN "t" ELSE path
        RECURSIVE Parts(_)
        Parts(n) ==
            IF n = 0 THEN <<>>
            ELSE LET cleaned == clean_markdown(fetched[n])
                 IN  IF fetched[n] # <<>> /\ cleaned # <<>>
                     THEN Append(Parts(n - 1),
                                 [title |-> Title(cleaned, docs_to_fetch[n]),
                                  text |-> cleaned,
                                  source |-> <<"keytao-docs.vercel.app", docs_to_fetch[n]>>])
                     ELSE Parts(n - 1)
        parts == Parts(Len(docs_to_fetch))
    IN  [fetches |-> docs_to_fetch,
         result |->
            IF parts # <<>>
            THEN [success |-> TRUE, query |-> query,
                  content |-> [i \in DOMAIN parts |-> <<parts[i].title, parts[i].text>>],
                  sources |-> [i \in DOMAIN parts |-> parts[i].source]]
            ELSE [success |-> FALSE, query |-> query, content |-> <<>>,
                  error |-> "no content"]]

QueryWords == { DOCS_MAPPING[i].keyword : i \in DOMAIN DOCS_MAPPING } \cup { "jiandao" }
DocTexts ==
    { <<>>, <<"", "">>, <<"x">>, <<"---", "a: b", "---">>,
      <<"---", "a: b", "---", "# t", "x">>, <<"---", "x">> }
DocsCalls ==
    [tool : {"fetch_docs"},
     query : UNION { [1..n -> QueryWords] : n \in 0..MaxQueryLen },
     fetched : [1..MaxDocs -> DocTexts]]

\* ---- the skills registry (skills/__init__.py)
MaxSkills == 3

\* What an entry of the skills directory can be: a plain file, a directory
\* whose name starts with ".", a directory without tools.py, one whose
\* tools.py raises on import, one whose module has TOOLS and TOOL_FUNCTIONS,
\* one whose module has TOOL_FUNCTIONS only.
EntryKinds == {"file", "hidden_dir", "no_tools_py", "import_raises", "ok", "ok_functions_only"}

EmptyManager == [attempted |-> <<>>, tools |-> <<>>, tool_functions |-> {}]

load_skillMutNoTry(self, skill_path) ==
    [attempted |-> Append(self.attempted, skill_path.name),
     tools |-> Append(self.tools, [function |-> skill_path.name]),
     tool_functions |-> self.tool_functions \cup {[name |-> skill_path.name]}]

\* SkillsManager.load_skill; "attempted" records the call.  A skill's tools
\* are named after its directory.
load_skill(self, skill_path) ==
    LET called == [self EXCEPT !.attempted = Append(@, skill_path.name)]
        TOOLS == << [function |-> skill_path.name] >>
        TOOL_FUNCTIONS == { [name |-> skill_path.name] }
    IN  IF skill_path.kind \in {"no_tools_py", "import_raises"} THEN called
        ELSE [called EXCEPT
                !.tools = IF skill_path.kind = "ok" THEN @ \o TOOLS ELSE @,
                !.tool_functions =
                    { f \in @ : \A g \in TOOL_FUNCTIONS : g.name # f.name }
                    \cup TOOL_FUNCTIONS]

\* SkillsManager.load_all_skills over the entries iterdir() yields
RECURSIVE load_all_skills(_, _)
load_all_skills(exists, entries) ==
    IF ~exists \/ entries = <<>> THEN EmptyManager
    ELSE LET self == load_all_skills(exists, SubSeq(entries, 1, Len(entries) - 1))
             skill_path == entries[Len(entries)]
         IN  IF skill_path.kind \notin {"file", "hidden_dir"}
             THEN load_skill(self, skill_path)
             ELSE self

\* SkillsManager.get_tool_function
get_tool_function(self, name) ==
    IF \E f \in self.tool_functions : f.name = name THEN <<"callable", name>>
    ELSE <<"None">>

LoadCalls ==
    [tool : {"load_all_skills"}, exists : BOOLEAN,
     entries : UNION { { [i \in 1..n |-> [name |-> i, kind |-> k[i]]] :
                           k \in [1..n -> EntryKinds] } : n \in 0..MaxSkills }]

\* ---- the confirmation safety net on its own (openai_chat.py)
\* A messages list whose only possible evidence of a warning is followed by
\* "age" further messages.
EvidenceKinds == {"none", "requiresConfirmation", "warnings", "assistant_keyword",
                  "assistant_plain", "tool_plain", "user_keyword"}
EvidenceMessage(kind) ==
    CASE kind = "requiresConfirmation" ->
            [role |-> "tool", content |-> [JsonFailure EXCEPT !.requiresConfirmation = TRUE]]
      [] kind = "warnings" ->
            [role |-> "tool", content |-> [JsonSuccess EXCEPT !.warnings = TRUE]]
      [] kind = "tool_plain" -> [role |-> "tool", content |-> JsonSuccess]
      [] kind = "assistant_keyword" ->
            [role |-> "assistant", content |-> <<"yi", "you", "chong", "ma">>]
      [] kind = "assistant_plain" ->
            [role |-> "assistant", content |-> <<"yi", "zhan", "yong">>]
      [] kind = "user_keyword" -> [role |-> "user", content |-> <<"chong", "ma">>]
      [] kind = "none" -> [role |-> "user", content |-> <<"ni">>]
MessagesWith(kind, age) ==
    <<SystemMessage, EvidenceMessage(kind)>>
    \o [i \in 1..age |-> [role |-> "user", content |-> <<"ni">>]]
SafetyNetTexts ==
    { <<"que", "ren">>, <<" ", "O", "K", " ">>, <<"bu", "que", "ren">>,
      <<"ni", "hao">>, <<"cha">>, <<"suan", "le">> }
SafetyNetCalls ==
    [tool : {"safety_net"},
     name : {"keytao_create_phrase", "keytao_batch_create_phrases", "keytao_lookup_by_word"},
     arguments : { [word |-> "w1", code |-> "c1"],
                   [word |-> "w1", code |-> "c1", confirmed |-> FALSE],
                   [word |-> "w1", code |-> "c1", confirmed |-> TRUE],
                   [word |-> "w1", code |-> "c1", action |-> "Delete", remark |-> "r"] },
     text : SafetyNetTexts,
     kind : EvidenceKinds,
     age : 0..(warning_lookback + 1)]

(***************************************************************************)
(* The reply context of get_openai_response, on its own                    *)
(***************************************************************************)
BotId == "bot"
NoReplyTo == <<>>       \* getattr(event, 'reply_to_message', None) is None
\* reply is NoReplyTo or <<from_.id, text>> of the replied message ("None" for
\* a missing sender, "" for a missing text); get_me is how bot.get_me() ends.
reply_context(ev) ==
    IF ev.reply = NoReplyTo THEN <<>>
    ELSE LET bot_id == IF ev.get_me = "ok" THEN BotId ELSE "None"
             reply_from == ev.reply[1]
             reply_message_text == ev.reply[2]
         IN  IF reply_from # "None" /\ reply_message_text # ""
             THEN LET is_reply_to_bot == bot_id # "None" /\ reply_from = bot_id
                  IN  IF is_reply_to_bot
                      THEN <<"reply_to_bot", reply_message_text>>
                      ELSE <<"reply_to_other", reply_from, reply_message_text>>
             ELSE <<>>

\* user_message_content = message + reply_context
user_message_content(message, ev) == <<message>> \o reply_context(ev)

\* Telegram events may reply to a message; the events of the QQ adapter have
\* no reply_to_message attribute.
ReplyCalls ==
    { c \in [tool : {"reply_context"},
             bot : {"telegram", "qq"},
             message : {"que ren"},
             reply : {NoReplyTo} \cup ({BotId, "u2", "None"} \X {"quoted", ""}),
             get_me : {"ok", "raises"}] :
        c.bot = "qq" => c.reply = NoReplyTo }

(***************************************************************************)
(* The conversation keys of two events                                     *)
(***************************************************************************)
Senders == {"u1", "u2"}
\* An event sent by `sender`: with or without the sender field, with or
\* without a user_id attribute.
KeyEvents ==
    { [bot |-> b, sender |-> u, author |-> IF f THEN u ELSE "",
       user_id |-> IF i THEN u ELSE ""] :
        b \in {"telegram", "qq", "other"}, u \in Senders, f \in BOOLEAN, i \in BOOLEAN }
KeyCalls == [tool : {"conversation_key"}, first : KeyEvents, second : KeyEvents]

\* The first sender completes a round, then the second sender's turn reads
\* its history and /clear clears it.
two_turns(first, second) ==
    LET k1 == get_conversation_key(first)
        k2 == get_conversation_key(second)
        st == AddConversationRound(<<{}, 1>>, k1[1], k1[2], <<"a">>, <<"b">>, 1, 2)
    IN  [keys |-> <<k1, k2>>,
         history |-> GetHistory(st[1], k2[1], k2[2], MAX_HISTORY_MESSAGES),
         cleared |-> ClearHistory(st[1], k2[1], k2[2])[2]]

HandlerCalls ==
    [tool : {"handle_bind"}, bot : {"qq", "telegram"}, text : BindTexts,
     token : BOOLEAN, http : HttpOutcomes]
    \cup [tool : {"find_user_by_platform"}, bot : {"qq", "telegram"},
          token : BOOLEAN, http : HttpOutcomes]
    \cup [tool : {"create_phrase_http"}, arguments : CreateHttpArgs,
          token : BOOLEAN, http : HttpOutcomes]

\* One call of a handler, utility or tool; or one chat turn about to begin,
\* with ARK_API_KEY configured or not.
InitHandlers ==
    /\ StoreIdle
    /\ DispatchIdle
    /\ \/ /\ TurnIdle
          /\ \/ skIn \in HandlerCalls \cup SkillCalls
             \/ skIn \in DeliverCalls
             \/ skIn \in DocsCalls
             \/ skIn \in LoadCalls
             \/ skIn \in SafetyNetCalls
             \/ skIn \in ReplyCalls
             \/ skIn \in KeyCalls
          /\ skOut = NoSkillCall
       \/ /\ SkillIdle
          /\ botToken = TRUE
          /\ apiKey \in BOOLEAN
          /\ tpc = "idle"
          /\ plaintext = <<>>
          /\ messages = <<>>
          /\ iteration = 0
          /\ nReq = 0
          /\ pending = <<>>
          /\ reply = <<>>
          /\ lastCall = NoCall
          /\ warned = {}
          /\ curWarn = FALSE
          /\ prevWarn = FALSE
          /\ turnsLeft = 1
          /\ oddLeft = 1

DoBind ==
    /\ skOut = NoSkillCall
    /\ skIn.tool = "handle_bind"
    /\ skOut' = [tool |-> skIn.tool,
                 out |-> handle_bind(skIn.bot, skIn.text, skIn.token, skIn.http)]
    /\ UNCHANGED skIn
    /\ UNCHANGED <<storeVars, dispatchVars, turnVars>>

DoFindUser ==
    /\ skOut = NoSkillCall
    /\ skIn.tool = "find_user_by_platform"
    /\ skOut' = [tool |-> skIn.tool,
                 out |-> find_user_by_platform(skIn.bot, TurnEvent.author,
                                               skIn.token, skIn.http)]
    /\ UNCHANGED skIn
    /\ UNCHANGED <<storeVars, dispatchVars, turnVars>>

DoCreateHttp ==
    /\ skOut = NoSkillCall
    /\ skIn.tool = "create_phrase_http"
    /\ skOut' = [tool |-> skIn.tool,
                 out |-> keytao_create_phrase_http(skIn.arguments, skIn.token, skIn.http)]
    /\ UNCHANGED skIn
    /\ UNCHANGED <<storeVars, dispatchVars, turnVars>>

DoDeliver ==
    /\ skOut = NoSkillCall
    /\ skIn.tool = "deliver"
    /\ skOut' = [tool |-> skIn.tool,
                 out |-> handle_ai_chat_deliver(skIn.bot, skIn.cls, skIn.msgId,
                                                skIn.hasReply, skIn.fails,
                                                skIn.response)]
    /\ UNCHANGED skIn
    /\ UNCHANGED <<storeVars, dispatchVars, turnVars>>

DoFetchDocs ==
    /\ skOut = NoSkillCall
    /\ skIn.tool = "fetch_docs"
    /\ skOut' = [tool |-> skIn.tool, out |-> keytao_fetch_docs(skIn.query, skIn.fetched)]
    /\ UNCHANGED skIn
    /\ UNCHANGED <<storeVars, dispatchVars, turnVars>>

DoLoadSkills ==
    /\ skOut = NoSkillCall
    /\ skIn.tool = "load_all_skills"
    /\ skOut' = [tool |-> skIn.tool, out |-> load_all_skills(skIn.exists, skIn.entries)]
    /\ UNCHANGED skIn
    /\ UNCHANGED <<storeVars, dispatchVars, turnVars>>

DoSafetyNet ==
    /\ skOut = NoSkillCall
    /\ skIn.tool = "safety_net"
    /\ skOut' = [tool |-> skIn.tool,
                 out |-> AutoFix(skIn.name, skIn.arguments, skIn.text,
                                 MessagesWith(skIn.kind, skIn.age))]
    /\ UNCHANGED skIn
    /\ UNCHANGED <<storeVars, dispatchVars, turnVars>>

DoReplyContext ==
    /\ skOut = NoSkillCall
    /\ skIn.tool = "reply_context"
    /\ skOut' = [tool |-> skIn.tool,
                 out |-> user_message_content(skIn.message, skIn)]
    /\ UNCHANGED skIn
    /\ UNCHANGED <<storeVars, dispatchVars, turnVars>>

DoConversationKey ==
    /\ skOut = NoSkillCall
    /\ skIn.tool = "conversation_key"
    /\ skOut' = [tool |-> skIn.tool, out |-> two_turns(skIn.first, skIn.second)]
    /\ UNCHANGED skIn
    /\ UNCHANGED <<storeVars, dispatchVars, turnVars>>

DoToolCall ==
    /\ skIn.tool \in ToolFunctions
    /\ CallTool

NextHandlers ==
    \/ DoBind
    \/ DoFindUser
    \/ DoCreateHttp
    \/ DoDeliver
    \/ DoFetchDocs
    \/ DoLoadSkills
    \/ DoSafetyNet
    \/ DoReplyContext
    \/ DoConversationKey
    \/ DoToolCall
    \/ NextTurn
SpecHandlers == InitHandlers /\ [][NextHandlers]_vars

(***************************************************************************)
(* Claims about the create skill (checked under SpecTool)                  *)
(***************************************************************************)
\* C13: a keytao_create_phrase call with a configured token makes exactly one
\* GET batches/latest-draft request before its POST pull-requests/batch, and
\* the POST body carries the batchId.
C13_DraftResolvedBeforeCreate ==
    ( /\ skOut.tool = "keytao_create_phrase"
      /\ skIn.token
      /\ skOut.failure = "none" )
    => /\ skOut.request.requests # <<>>
       /\ skOut.request.requests[1] = "GET batches/latest-draft"
       /\ skOut.request.sent =>
             /\ skOut.request.requests =
                  << "GET batches/latest-draft", "POST pull-requests/batch" >>
             /\ "batchId" \in skOut.request.body

\* C14: keytao_submit_batch requested with no arguments (the identity being
\* injected) sends POST batches/{batchId}/submit for the sender.
C14_SubmitNeedsNoBatchId ==
    ( /\ skOut.tool = "keytao_submit_batch"
      /\ skIn.arguments = NoArgs
      /\ skIn.token )
    => /\ skOut.request.sent
       /\ skOut.request.endpoint = "POST batches/{id}/submit"
       /\ skOut.request.identity = extract_platform_info(TurnEvent)

\* The classifier the type is to be detected with, on the characters of the
\* model's words and codes.
LatinLetters == { "h", "i", "w", "x", "c", "a" }
SymbolChars == { "!", ";", ".", ":", "/" }
CJKChars == { "qi", "ru", "guo" }
DetectType(word, code) ==
    IF (code # <<>> /\ code[1] = ";") \/ (word # <<>> /\ Range(word) \subseteq SymbolChars)
    THEN "Symbol"
    ELSE IF \/ Contains(word, <<"h", "t", "t", "p", ":", "/", "/">>)
            \/ Contains(word, <<"h", "t", "t", "p", "s", ":", "/", "/">>)
            \/ Contains(word, <<"w", "w", "w", ".">>)
    THEN "Link"
    ELSE IF Range(word) \cap LatinLetters # {} THEN "English"
    ELSE IF Len(word) = 1 /\ word[1] \in CJKChars THEN "Single"
    ELSE "Phrase"

\* C20: with type left at its default, the type keytao_create_phrase sends is
\* the one detected from word and code (Symbol, Link, English, Single, else
\* Phrase).
C20_TypeAutoDetected ==
    ( /\ skOut.tool = "keytao_create_phrase"
      /\ "type" \notin DOMAIN skIn.arguments
      /\ skOut.request.sent )
    => skOut.request.type = DetectType(skIn.arguments.word, skIn.arguments.code)

(***************************************************************************)
(* Claims about the AI chat turn (checked under SpecTurn)                  *)
(***************************************************************************)
\* C1: in one turn at most 6 chat-completion requests are made; when the 6th
\* response still asked for tools and they were executed, no 7th request is
\* made and the "took too long" apology is returned.
C1_AtMostSixRequests ==
    [][ /\ nReq' <= 6
        /\ (tpc = "llm" /\ nReq = 6) =>
              (tpc' = "reply" /\ reply' = TookTooLong /\ nReq' = nReq) ]_vars

C1_Witness == tpc = "reply" /\ reply = TookTooLong /\ nReq = 6

\* The bare affirmatives of the confirmation rule, as the specification
\* lists them.
Affirmatives ==
    { <<"que", "ren">>, <<"shi">>, <<"hao">>, <<"ke", "yi3">>, <<"tong", "yi4">>,
      <<"y", "e", "s">>, <<"o", "k">>, <<"que", "ding">>, <<"en">>, <<"xing">> }

\* C2: when a create call of the sender's previous turn returned
\* requiresConfirmation and the current message is a bare affirmative without
\* a negation token, every keytao_create_phrase call executed in this turn is
\* called with confirmed=true.
C2_ConfirmationSendsConfirmed ==
    ( /\ prevWarn
      /\ Lower(Strip(plaintext)) \in Affirmatives
      /\ ~ContainsAny(Lower(Strip(plaintext)), negation_keywords)
      /\ lastCall.name = "keytao_create_phrase"
      /\ lastCall.executed )
    => lastCall.confirmed

\* C3: a keytao_create_phrase call executed with confirmed=true has the word,
\* code and action of an earlier create call of the sender that returned
\* requiresConfirmation.
C3_ConfirmedOnlyRepeatsWarned ==
    ( /\ lastCall.name = "keytao_create_phrase"
      /\ lastCall.executed
      /\ lastCall.confirmed )
    => lastCall.priorWarning

\* C4: when the current message contains a negation token, no
\* keytao_create_phrase call is executed with confirmed=true.
C4_NegationNeverConfirms ==
    ( /\ ContainsAny(Lower(Strip(plaintext)), negation_keywords)
      /\ lastCall.name = "keytao_create_phrase"
      /\ lastCall.executed )
    => ~lastCall.confirmed

\* C5: every mutation request sent to the backend during a turn carries the
\* platform and platformId of the sender of the event.
C5_MutationCarriesSenderIdentity ==
    ( /\ lastCall.name \in MutationTools
      /\ lastCall.request.sent )
    => lastCall.request.identity = extract_platform_info(TurnEvent)

\* C6: a tool call that fails (unknown tool, arguments that are not JSON,
\* missing or unexpected arguments, an exception in the tool) appends a
\* role:tool message with a JSON {"error": ...} for that call and the loop goes
\* on; the turn is not ended by it.
C6_ToolFailureBecomesErrorMessage ==
    lastCall.failure # "none"
    => /\ tpc \in { "tools", "llm" }
       /\ messages # <<>>
       /\ messages[Len(messages)].role = "tool"
       /\ messages[Len(messages)].tool_call_id = lastCall.id
       /\ messages[Len(messages)].content.error

\* The history part of the messages list: between the system prompt and the
\* current user message.
ReplayedHistory == SubSeq(messages, 2, Len(messages) - 1)

\* C12: the history replayed to the LLM in a turn is at most 30 messages and
\* consists of whole rounds: it alternates user, assistant, starts with a user
\* message and ends with an assistant reply.
C12_ReplayIsWholeRounds ==
    (tpc = "llm" /\ nReq = 0) =>
        /\ Len(ReplayedHistory) <= 30
        /\ Len(ReplayedHistory) % 2 = 0
        /\ \A i \in 1..Len(ReplayedHistory) :
              ReplayedHistory[i].role = (IF i % 2 = 1 THEN "user" ELSE "assistant")

\* C15: a keytao_create_phrase call with action "Delete" is executed only
\* after a lookup call has been executed for the same identity; shown here for
\* the first turn of the identity, where only the turn's own calls precede.
C15_DeleteOnlyAfterLookup ==
    ( /\ turnsLeft = MaxTurns - 1
      /\ lastCall.request.sent
      /\ lastCall.wca[3] = "Delete"
      /\ messages # <<>>
      /\ messages[Len(messages)].role = "tool"
      /\ messages[Len(messages)].tool_call_id = lastCall.id )
    => \E i \in DOMAIN messages :
          /\ messages[i].role = "tool"
          /\ messages[i].name = "keytao_lookup_by_word"
          /\ messages[i].content.success

(***************************************************************************)
(* Claims about the history store (checked under SpecStore, SpecMessages)  *)
(***************************************************************************)
\* C11: add_message for an identity that already has a row at the current
\* timestamp leaves the table as it is (the message is dropped, the existing
\* row kept) and returns without raising.
C11_DuplicateTimestampDropped ==
    [][ ( /\ lastOp'.op = "add_message"
          /\ Collides(rows, lastOp'.key[1], lastOp'.key[2], clock) )
        => ( rows' = rows /\ ~lastOp'.raised /\ ~lastOp'.inserted ) ]_vars

C11_Witness ==
    /\ lastOp.op = "add_message"
    /\ ~lastOp.inserted
    /\ \E r \in RowsOf(rows, lastOp.key[1], lastOp.key[2]) : r.timestamp = clock

CountOf(k) == Cardinality(RowsOf(rows, k[1], k[2]))

\* C8: after any sequence of add_conversation_round calls for an identity,
\* every call has added both its user row and its assistant row: N completed
\* rounds leave exactly 2N rows for that identity, at any clock readings.
C8_RoundAddsBothRows ==
    \A k \in Keys : CountOf(k) = 2 * rounds[k]

\* The rows of an identity in insertion order (ascending AUTOINCREMENT id).
RECURSIVE OrderByIdAsc(_)
OrderByIdAsc(S) ==
    IF S = {} THEN <<>>
    ELSE LET m == CHOOSE r \in S : \A q \in S : r.id <= q.id
         IN  <<m>> \o OrderByIdAsc(S \ {m})

MostRecentInserted(k, limit) ==
    LET all == OrderByIdAsc(RowsOf(rows, k[1], k[2]))
        n   == Len(all)
        m   == Min(limit, n)
    IN  [i \in 1..m |->
            [role |-> all[n - m + i].role, content |-> all[n - m + i].content,
             timestamp |-> all[n - m + i].timestamp]]

\* C9: for an identity holding n rows, get_history(platform, user_id, limit)
\* returns exactly min(limit, n) rows: the most recently inserted rows of that
\* identity, none of another identity, oldest first.
C9_GetHistoryMostRecent ==
    lastOp.op = "get" =>
        /\ Len(got) = Min(lastOp.limit, CountOf(lastOp.key))
        /\ got = MostRecentInserted(lastOp.key, lastOp.limit)

\* C9 witness: a read with a limit below the number of stored rows, while
\* another identity holds rows too.
C9_Witness ==
    /\ lastOp.op = "get"
    /\ lastOp.limit >= 2
    /\ CountOf(lastOp.key) > lastOp.limit
    /\ \E o \in Keys \ {lastOp.key} : CountOf(o) > 0

\* C10: clear_history(platform, user_id) deletes all and only the rows of that
\* identity: it returns the number of rows the identity had, a following
\* get_history of the identity is empty, and every other identity's rows are
\* unchanged.
C10_ClearDeletesOnlyIdentity ==
    [][ lastOp'.op = "clear" =>
          LET k == lastOp'.key
          IN  /\ deleted' = Cardinality(RowsOf(rows, k[1], k[2]))
              /\ \A limit \in 0..MaxLimit :
                     GetHistory(rows', k[1], k[2], limit) = <<>>
              /\ \A o \in Keys \ {k} :
                     RowsOf(rows', o[1], o[2]) = RowsOf(rows, o[1], o[2]) ]_vars

\* C10 witness: a clear that deleted at least two rows while another identity
\* still holds rows.
C10_Witness ==
    /\ lastOp.op = "clear"
    /\ deleted >= 2
    /\ \E o \in Keys \ {lastOp.key} : CountOf(o) > 0

(***************************************************************************)
(* Claims about the lookup skill (checked under SpecLookup)                *)
(***************************************************************************)
ByCodeDone == skOut # NoSkillCall /\ skOut.tool = "keytao_lookup_by_code"
ByWordDone == skOut # NoSkillCall /\ skOut.tool = "keytao_lookup_by_word"

\* The label an index is to carry.
IndexLabel(i) ==
    CASE i = 0 -> ""
      [] i = 1 -> "erchong"
      [] i = 2 -> "sanchong"
      [] i = 3 -> "sichong"
      [] i = 4 -> "wuchong"
      [] i = 5 -> "liuchong"
      [] OTHER -> ToString(i + 1) \o "chong"

Occurrences(s, e) ==
    Cardinality({ i \in DOMAIN s :
                    s[i].word = e.word /\ s[i].code = e.code /\ s[i].weight = e.weight })

RequestFailed ==
    IF skIn.tool = "keytao_lookup_by_code"
    THEN ~skIn.resp.ok
    ELSE \/ ~skIn.page1.ok
         \/ \E p \in 2..skIn.page1.totalPages : ~skIn.more[p].ok
         \/ \E i \in DOMAIN skIn.page1.phrases :
               /\ skIn.page1.phrases[i].weight % 10 # 0
               /\ ~skIn.backend[skIn.page1.phrases[i].code].ok
         \/ \E p \in 2..skIn.page1.totalPages :
               \E i \in DOMAIN skIn.more[p].phrases :
                  /\ skIn.more[p].phrases[i].weight % 10 # 0
                  /\ ~skIn.backend[skIn.more[p].phrases[i].code].ok

\* C18: a lookup result has success false if and only if a backend request
\* failed, and then phrases is empty and an error is present; otherwise
\* success is true, also with no match.
C18_FailureIffRequestFailed ==
    (ByCodeDone \/ ByWordDone) =>
        /\ skOut.result.success <=> ~RequestFailed
        /\ ~skOut.result.success =>
              skOut.result.phrases = <<>> /\ skOut.result.error
        /\ skOut.result.success => ~skOut.result.error

\* The entries of the by-code answer for an entry's code.
GroupOf(e) ==
    LET Same(p) == p.code = e.code
    IN  IF skIn.backend[e.code].ok
        THEN SelectSeq(skIn.backend[e.code].phrases, Same)
        ELSE <<>>
HasTarget(e) ==
    \E i \in DOMAIN GroupOf(e) :
        GroupOf(e)[i].word = skIn.word /\ GroupOf(e)[i].weight = e.weight

\* What duplicate_info holds: the group in ascending weight with index labels,
\* and the index of the first entry with the queried word and the weight.
DuplicateInfoRight(e) ==
    LET d == e.duplicate_info
        aw == d.all_words
    IN  /\ Len(aw) = Len(GroupOf(e))
        /\ \A i \in DOMAIN aw :
              /\ aw[i].position = i - 1
              /\ aw[i].label = IndexLabel(i - 1)
              /\ Cardinality({ j \in DOMAIN aw :
                     aw[j].word = aw[i].word /\ aw[j].weight = aw[i].weight })
                 = Cardinality({ j \in DOMAIN GroupOf(e) :
                     GroupOf(e)[j].word = aw[i].word /\ GroupOf(e)[j].weight = aw[i].weight })
        /\ \A i, j \in DOMAIN aw : i < j => aw[i].weight <= aw[j].weight
        /\ d.position \in 0..(Len(aw) - 1)
        /\ aw[d.position + 1].word = skIn.word
        /\ aw[d.position + 1].weight = e.weight
        /\ \A i \in 1..d.position :
              ~(aw[i].word = skIn.word /\ aw[i].weight = e.weight)
        /\ d.position_label = IndexLabel(d.position)

\* C19 as stated: an entry of a keytao_lookup_by_word result carries
\* duplicate_info exactly when its weight is not a multiple of 10 and more
\* than one entry shares its code.
C19_DuplicateInfoWhenShared ==
    (ByWordDone /\ skOut.result.success) =>
        \A k \in DOMAIN skOut.result.phrases :
            LET e == skOut.result.phrases[k]
            IN  e.has_duplicate_info <=>
                    (e.weight % 10 # 0 /\ Len(GroupOf(e)) > 1)

\* C19 amended: an entry carries duplicate_info exactly when its weight is not
\* a multiple of 10, the by-code lookup of its code succeeds with more than
\* one entry of that code, and one of them has the queried word and the
\* entry's weight; then position is the index of the first such entry in the
\* ascending-weight list, position_label the label of that index, and
\* all_words the whole group in that order with index labels.
C19_DuplicateInfoWhenTargetInGroup ==
    (ByWordDone /\ skOut.result.success) =>
        \A k \in DOMAIN skOut.result.phrases :
            LET e == skOut.result.phrases[k]
            IN  /\ e.has_duplicate_info <=>
                      (e.weight % 10 # 0 /\ Len(GroupOf(e)) > 1 /\ HasTarget(e))
                /\ e.has_duplicate_info => DuplicateInfoRight(e)

\* An entry at index 1 of a group answered in descending weight.
C19_Witness ==
    /\ ByWordDone
    /\ skOut.result.success
    /\ \E k \in DOMAIN skOut.result.phrases :
          LET e == skOut.result.phrases[k]
          IN  /\ e.has_duplicate_info
              /\ e.duplicate_info.position = 1
              /\ e.duplicate_info.position_label = "erchong"
              /\ skIn.backend[e.code].phrases[1].weight = 101

(***************************************************************************)
(* Claims about the handlers (checked under SpecHandlers)                  *)
(***************************************************************************)
\* C21: with no bot token, keytao_create_phrase, keytao_submit_batch, /bind
\* and find_user_by_platform make no request and give their configuration
\* error or not-found outcome; with no LLM API key get_openai_response makes
\* no chat-completion request and returns the contact-the-administrator text.
C21_NoCredentialNoRequest ==
    /\ (skOut # NoSkillCall /\ "token" \in DOMAIN skIn /\ ~skIn.token) =>
          CASE skOut.tool \in {"keytao_create_phrase", "keytao_submit_batch"} ->
                    /\ ~skOut.request.sent
                    /\ skOut.request.requests = <<>>
                    /\ skOut.failure = "none" => skOut.json = JsonFailure
            [] skOut.tool = "handle_bind" ->
                    /\ skOut.out.requests = <<>>
                    /\ Len(Split(skIn.text)) >= 2 =>
                          skOut.out.replies = << <<"configuration error">> >>
            [] skOut.tool = "find_user_by_platform" ->
                    /\ skOut.out.requests = <<>>
                    /\ skOut.out.result = "None"
            [] OTHER -> TRUE
    /\ ~apiKey =>
          /\ nReq = 0
          /\ tpc = "reply" => reply = ContactAdmin

\* /bind with a code and no token has answered.
C21_Witness ==
    /\ skOut # NoSkillCall
    /\ skOut.tool = "handle_bind"
    /\ ~skIn.token
    /\ skIn.http.kind = "status"
    /\ skOut.out.replies = << <<"configuration error">> >>

\* C22: keytao_create_phrase sends one item with the caller's confirmed flag
\* and returns, for 200 and 400, the backend JSON unchanged, for 404 the
\* no-linked-account failure, for another status the HTTP failure, for a
\* timeout or another exception a failure message; it always returns.
C22_CreateOutcomeMapping ==
    (skOut # NoSkillCall /\ skOut.tool = "create_phrase_http" /\ skIn.token) =>
        LET req == skOut.out.requests
            res == skOut.out.result
            http == skIn.http
            Failed(m) == res.from = "skill" /\ ~res.success /\ res.message = m
        IN  /\ Len(req) = 1
            /\ Len(req[1].items) = 1
            /\ req[1].items[1].word = skIn.arguments.word
            /\ req[1].items[1].code = skIn.arguments.code
            /\ req[1].confirmed =
                  ("confirmed" \in DOMAIN skIn.arguments /\ skIn.arguments.confirmed)
            /\ (http.kind = "status" /\ http.status \in {200, 400} /\ http.body.json) =>
                  res.from = "backend" /\ res.body = http.body
            /\ (http.kind = "status" /\ http.status = 404) =>
                  Failed("no linked account, /bind")
            /\ (http.kind = "status" /\ http.status \notin {200, 400, 404}) =>
                  Failed("HTTP failure")
            /\ http.kind = "timeout" => Failed("timed out")
            /\ (http.kind = "exception"
                \/ (http.kind = "status" /\ http.status \in {200, 400} /\ ~http.body.json)) =>
                  Failed("create failed: e")

\* A confirmed create answered 400 with a body asking for confirmation.
C22_Witness ==
    /\ skOut # NoSkillCall
    /\ skOut.tool = "create_phrase_http"
    /\ skIn.token
    /\ skIn.http.kind = "status"
    /\ skIn.http.status = 400
    /\ skIn.http.body.json
    /\ skOut.out.requests[1].confirmed
    /\ skOut.out.result.from = "backend"

\* C24: /bind with a code and a configured token verifies the second
\* whitespace-separated token of the message, upper-cased, in one request and
\* sends exactly one reply that the outcome determines: the nickname or else
\* the user name on success, the backend's message or else the generic
\* failure on a refusal, the timed-out text on a timeout, and the generic
\* try-later text, without the exception's text, on any other exception.
C24_BindReply ==
    (skOut # NoSkillCall /\ skOut.tool = "handle_bind" /\ skIn.token
     /\ skIn.text \notin { <<"/", "b">>, <<"/", "b", " ">> }) =>
        LET http == skIn.http
            body == http.body
            code == IF skIn.text = <<" ", "/", "b", " ", " ", "a", "B", " ", "c">>
                    THEN <<"A", "B">> ELSE <<"A", "1">>
            expected ==
                CASE http.kind = "timeout" -> <<"timed out">>
                  [] http.kind = "exception" -> <<"failed, try later">>
                  [] http.kind = "status" /\ ~body.json ->
                        IF http.status = 200 THEN <<"failed, try later">>
                        ELSE <<"x", "failed">>
                  [] http.kind = "status" /\ body.json /\ http.status = 200
                     /\ body.success ->
                        IF body.userNickname # "" THEN <<"bound", body.userNickname>>
                        ELSE <<"bound", body.userName>>
                  [] OTHER ->
                        IF body.message # "" THEN <<"x", body.message>>
                        ELSE <<"x", "failed">>
        IN  /\ Len(skOut.out.requests) = 1
            /\ skOut.out.requests[1].key = code
            /\ skOut.out.requests[1].platform = skIn.bot
            /\ skOut.out.replies = <<expected>>

\* A lower-case code was bound for a user that has no nickname.
C24_Witness ==
    /\ skOut # NoSkillCall
    /\ skOut.tool = "handle_bind"
    /\ skIn.token
    /\ skIn.text = <<"/", "b", " ", "a", "1">>
    /\ skIn.http.kind = "status"
    /\ skIn.http.status = 200
    /\ skIn.http.body.json
    /\ skIn.http.body.success
    /\ skIn.http.body.userNickname = ""
    /\ skOut.out.requests[1].key = <<"A", "1">>
    /\ skOut.out.replies = << <<"bound", "un">> >>

\* C25: on the QQ-style platform every delivery attempt carries the
\* remove_urls-filtered text, in which every http(s):// or www. URL of the
\* response has given way to the placeholder; on Telegram every attempt
\* carries the response unmodified.
C25_DeliveredText ==
    (skOut # NoSkillCall /\ skOut.tool = "deliver") =>
        LET HasUrl(t) == \E i \in 1..(Len(t) - 1) :
                            t[i] \in {"http://", "https://", "www."} /\ t[i + 1] # " "
            Plain(t) == \A i \in DOMAIN t : t[i] \in {"w", " "}
        IN  \A i \in DOMAIN skOut.out :
                LET sent == skOut.out[i].text
                IN  IF skIn.bot = "telegram" THEN sent = skIn.response
                    ELSE skIn.bot = "qq" =>
                            /\ sent = remove_urls(skIn.response)
                            /\ ~HasUrl(sent)
                            /\ HasUrl(skIn.response) =>
                                  \E k \in DOMAIN sent : sent[k] = "[link]"
                            /\ Plain(skIn.response) => sent = skIn.response

\* On QQ all three methods were tried for a response that holds a URL right
\* after a word, and each carried the word and the placeholder.
C25_Witness ==
    /\ skOut # NoSkillCall
    /\ skOut.tool = "deliver"
    /\ skIn.bot = "qq"
    /\ skIn.response = <<"w", "https://", "w">>
    /\ Len(skOut.out) = 3
    /\ \A i \in 1..3 : skOut.out[i].text = <<"w", "[link]">>

\* C26: the delivery methods are attempted in a fixed order (Telegram: the
\* threaded send, then the plain send; QQ: the send with msg_id, then
\* event.reply, then the unthreaded send), a later one only after every
\* earlier one failed, the final unthreaded send whenever all earlier ones
\* failed or no message id exists; so at most one attempt succeeds.
C26_DeliveryOrder ==
    (skOut # NoSkillCall /\ skOut.tool = "deliver" /\ skIn.bot \in {"telegram", "qq"}) =>
        LET att == skOut.out
            Rank(m) == CASE m = "send_with_id" -> 1
                         [] m = "event_reply" -> 2
                         [] m = "finish" -> 3
            last == att[Len(att)]
        IN  /\ Len(att) >= 1
            /\ \A i, j \in DOMAIN att : i < j => Rank(att[i].method) < Rank(att[j].method)
            /\ \A i \in DOMAIN att : i < Len(att) => ~att[i].ok
            /\ last.ok \/ last.method = "finish"
            /\ skIn.msgId => att[1].method = "send_with_id"
            /\ ~skIn.msgId => att = << last >> /\ last.method = "finish"
            /\ skIn.bot = "telegram" => \A i \in DOMAIN att : att[i].method # "event_reply"
            /\ (skIn.bot = "qq" /\ skIn.hasReply /\ Len(att) >= 2) =>
                  att[2].method = "event_reply"
            /\ Cardinality({ i \in DOMAIN att : att[i].ok }) <= 1

\* On QQ the send with msg_id and event.reply failed and the unthreaded send
\* delivered the reply.
C26_Witness ==
    /\ skOut # NoSkillCall
    /\ skOut.tool = "deliver"
    /\ skIn.bot = "qq"
    /\ Len(skOut.out) = 3
    /\ ~skOut.out[1].ok
    /\ ~skOut.out[2].ok
    /\ skOut.out[3].ok
    /\ skOut.out[3].method = "finish"

\* C27: keytao_fetch_docs fetches the first 3 entries of the de-duplicated
\* (first occurrence kept) concatenation of the path lists of the table
\* keywords the query contains, the default overview document exactly when
\* the query contains no keyword, never more than 3 documents and never the
\* same path twice.
C27_DocsSelected ==
    (skOut # NoSkillCall /\ skOut.tool = "fetch_docs") =>
        LET sel == skOut.out.fetches
            hit == { k \in DOMAIN DOCS_MAPPING :
                        \E i \in DOMAIN skIn.query : skIn.query[i] = DOCS_MAPPING[k].keyword }
            Places(p) == { n \in { 10 * k + j : k \in hit, j \in 1..3 } :
                            /\ (n % 10) \in DOMAIN DOCS_MAPPING[n \div 10].paths
                            /\ DOCS_MAPPING[n \div 10].paths[n % 10] = p }
            First(p) == CHOOSE n \in Places(p) : \A m \in Places(p) : n <= m
            listed == UNION { { DOCS_MAPPING[k].paths[j] :
                                  j \in DOMAIN DOCS_MAPPING[k].paths } : k \in hit }
        IN  /\ Len(sel) <= 3
            /\ \A i, j \in DOMAIN sel : i # j => sel[i] # sel[j]
            /\ (hit = {}) <=> (sel = << "guide/index.md" >>)
            /\ hit # {} =>
                  /\ \A i \in DOMAIN sel : sel[i] \in listed
                  /\ Len(sel) = (IF Cardinality(listed) < 3 THEN Cardinality(listed) ELSE 3)
                  /\ \A i, j \in DOMAIN sel : i < j => First(sel[i]) < First(sel[j])
                  /\ \A p \in listed :
                        (\A i \in DOMAIN sel : sel[i] # p) =>
                            \A i \in DOMAIN sel : First(sel[i]) < First(p)

\* A query with two keywords that share a path: four listed paths, three
\* distinct ones fetched.
C27_Witness ==
    /\ skOut # NoSkillCall
    /\ skOut.tool = "fetch_docs"
    /\ skIn.query = <<"zigen", "guize">>
    /\ skOut.out.fetches = << "guide/learn-xkjd/phonetics-rules.md",
                              "guide/learn-xkjd/stroke-rules.md",
                              "guide/learn-xkjd/layouts.md" >>

\* C28: a failed fetch leaves out only its own document; the result has
\* success true exactly when a selected document gave non-empty cleaned
\* content, sources then lists the included documents in fetch order, and
\* with no content the result is a failure with empty content.
C28_DocsResult ==
    (skOut # NoSkillCall /\ skOut.tool = "fetch_docs") =>
        LET sel == skOut.out.fetches
            res == skOut.out.result
            WithContent == { <<"x">>, <<"---", "a: b", "---", "# t", "x">>, <<"---", "x">> }
            included == { i \in DOMAIN sel : skIn.fetched[i] \in WithContent }
            Before(i) == Cardinality({ j \in included : j <= i })
        IN  /\ res.success <=> included # {}
            /\ res.success =>
                  /\ Len(res.sources) = Cardinality(included)
                  /\ Len(res.content) = Cardinality(included)
                  /\ \A i \in included :
                        res.sources[Before(i)] = <<"keytao-docs.vercel.app", sel[i]>>
            /\ ~res.success => res.content = <<>>

\* The first of three fetches failed, the second gave only front matter and
\* the third gave content: one source, the third path.
C28_Witness ==
    /\ skOut # NoSkillCall
    /\ skOut.tool = "fetch_docs"
    /\ Len(skOut.out.fetches) = 3
    /\ skIn.fetched[1] = <<>>
    /\ skIn.fetched[2] = <<"---", "a: b", "---">>
    /\ skIn.fetched[3] = <<"x">>
    /\ skOut.out.result.success
    /\ skOut.out.result.sources = << <<"keytao-docs.vercel.app", skOut.out.fetches[3]>> >>

\* C29: load_all_skills attempts every sub-directory whose name does not
\* start with "."; a skill without tools.py or whose import raises adds no
\* schema and no callable and does not stop the others; afterwards get_tools
\* and get_tool_function expose exactly what the imported skills define.
C29_SkillsLoaded ==
    (skOut # NoSkillCall /\ skOut.tool = "load_all_skills" /\ skIn.exists) =>
        LET dir == skIn.entries
            self == skOut.out
            Dirs == { i \in DOMAIN dir : dir[i].kind \notin {"file", "hidden_dir"} }
            Imported == { i \in DOMAIN dir : dir[i].kind \in {"ok", "ok_functions_only"} }
            WithSchema == { i \in DOMAIN dir : dir[i].kind = "ok" }
        IN  /\ { self.attempted[i] : i \in DOMAIN self.attempted } = Dirs
            /\ Len(self.attempted) = Cardinality(Dirs)
            /\ { self.tools[i].function : i \in DOMAIN self.tools } = WithSchema
            /\ Len(self.tools) = Cardinality(WithSchema)
            /\ \A i \in DOMAIN dir :
                  (get_tool_function(self, i) # <<"None">>) <=> (i \in Imported)

\* A skill whose import raised stands between two skills that loaded.
C29_Witness ==
    /\ skOut # NoSkillCall
    /\ skOut.tool = "load_all_skills"
    /\ skIn.exists
    /\ Len(skIn.entries) = 3
    /\ skIn.entries[1].kind = "ok"
    /\ skIn.entries[2].kind = "import_raises"
    /\ skIn.entries[3].kind = "ok"
    /\ skOut.out.tools = << [function |-> 1], [function |-> 3] >>
    /\ get_tool_function(skOut.out, 2) = <<"None">>

\* C30: get_openai_response always returns, and never the text of an
\* exception: a raising chat-completion request gives the service-unavailable
\* apology, a response without choices the no-reply apology, every return is
\* one of the fixed texts or the model's content, and the turn ends with one
\* non-empty reply.
C30_AlwaysOneReply ==
    [][ /\ LLMError => reply' = <<"zan", "shi2", "bu", "ke", "yong">>
        /\ LLMNoChoices => reply' = <<"mei", "you", "hui", "fu">>
        /\ (tpc # "reply" /\ tpc' = "reply") =>
              reply' \in ModelTexts \cup
                         { <<"zan", "shi2", "bu", "ke", "yong">>,
                           <<"mei", "you", "hui", "fu">>,
                           <<"chu", "li", "tai", "jiu", "le">>,
                           <<"wei", "pei", "zhi", "lian", "xi", "guan", "li", "yuan">> }
        /\ tpc \in {"llm", "tools"} => tpc' \in {"llm", "tools", "reply"}
        /\ (tpc # "idle" /\ tpc' = "idle") => reply' # <<>>
      ]_vars

\* A chat-completion request of the second round raised after a tool call
\* was executed, and the turn is about to answer with the apology.
C30_Witness ==
    /\ tpc = "reply"
    /\ nReq = 2
    /\ lastCall = NoCall
    /\ reply = <<"zan", "shi2", "bu", "ke", "yong">>

(***************************************************************************)
(* Further claims about the AI chat turn (checked under SpecTurn)          *)
(***************************************************************************)
\* C32: whenever a response of the LLM carries tool calls, whatever its
\* finish_reason, all of them are executed, one by one in the order
\* requested, before the next chat-completion request; a response without
\* tool calls executes nothing and its text is the final reply.
C32_ToolCallsAllExecuted ==
    [][ /\ LLMToolCalls => (tpc' = "tools" /\ pending' # <<>>)
        /\ (LLMOtherFinish /\ reply' # NoReply) => (tpc' = "tools" /\ pending' # <<>>)
        /\ ExecToolCall =>
              /\ pending' = Tail(pending)
              /\ messages' # messages
              /\ messages'[Len(messages')].tool_call_id = Head(pending).id
        /\ (tpc = "tools" /\ tpc' # "tools") => (tpc' = "llm" /\ pending' = <<>>)
        /\ nReq' # nReq => pending = <<>>
      ]_vars

\* C33: at every chat-completion request the message list starts with the
\* system message, and every assistant message with tool_calls is followed
\* at once by one role:tool message per requested call, in the order of the
\* calls and with their ids, and by no further role:tool message.
C33_ToolResultsComplete ==
    tpc = "llm" =>
        /\ messages # <<>>
        /\ messages[1] = [role |-> "system", content |-> <<"SYSTEM_PROMPT">>]
        /\ \A i \in DOMAIN messages :
              IF messages[i].role = "assistant" /\ "tool_calls" \in DOMAIN messages[i]
              THEN LET n == Len(messages[i].tool_calls)
                   IN  /\ i + n <= Len(messages)
                       /\ \A k \in 1..n :
                             /\ messages[i + k].role = "tool"
                             /\ messages[i + k].tool_call_id = messages[i].tool_calls[k].id
                             /\ messages[i + k].name = messages[i].tool_calls[k].name
                       /\ i + n < Len(messages) => messages[i + n + 1].role # "tool"
              ELSE messages[i].role = "tool" =>
                       \E j \in 1..(i - 1) :
                           /\ messages[j].role = "assistant"
                           /\ "tool_calls" \in DOMAIN messages[j]
                           /\ i - j <= Len(messages[j].tool_calls)

\* The second request of a turn is about to be made: the list ends with an
\* assistant message of two tool calls and their two results.
C33_Witness ==
    /\ tpc = "llm"
    /\ nReq = 1
    /\ Len(messages) >= 4
    /\ messages[Len(messages) - 2].role = "assistant"
    /\ "tool_calls" \in DOMAIN messages[Len(messages) - 2]
    /\ Len(messages[Len(messages) - 2].tool_calls) = 2
    /\ messages[Len(messages) - 1].role = "tool"
    /\ messages[Len(messages)].role = "tool"
    /\ messages[Len(messages)].tool_call_id = <<1, 2>>

\* C36: handle_ai_chat writes a conversation round, the trimmed user text and
\* the reply as returned, exactly when get_openai_response returned a
\* non-empty string; an empty inbound message is answered by the greeting
\* without a request to the LLM, an empty response by the handler's error
\* message, and both leave the history unchanged.
C36_RoundWrittenIffResponse ==
    [][ LET key == get_conversation_key(TurnEvent)
            Written(role, content) ==
                \E r \in rows' \ rows :
                    /\ r.platform = key[1]
                    /\ r.user_id = key[2]
                    /\ r.role = role
                    /\ r.content = content
        IN  /\ (FinishTurn /\ reply # NoText) =>
                  /\ Written("user", Strip(plaintext))
                  /\ Written("assistant", reply)
                  /\ Cardinality(rows' \ rows) = 2
                  /\ reply' = reply
            /\ (FinishTurn /\ reply = NoText) =>
                  (rows' = rows /\ reply' = HandlerError)
            /\ (ReceiveChat /\ Strip(plaintext') = NoText) =>
                  (rows' = rows /\ reply' = Greeting /\ nReq' = 0 /\ tpc' = "idle")
            /\ rows' # rows => (FinishTurn /\ reply # NoText) ]_vars

\* C40: when get_openai_response ends a turn with the "took too long" or the
\* "service unavailable" apology, no keytao_create_phrase,
\* keytao_batch_create_phrases or keytao_submit_batch request was sent to the
\* backend in that turn; here: the tool call executed last before the
\* apology sent none.
C40_ApologyMeansNoMutation ==
    [][ (tpc # "reply" /\ tpc' = "reply"
            /\ reply' \in {TookTooLong, ServiceUnavailable}) =>
          ~(lastCall.name \in MutationTools /\ lastCall.request.sent) ]_vars

(***************************************************************************)
(* Further claims about the handlers (checked under SpecHandlers)          *)
(***************************************************************************)
\* C34: the safety net changes a tool call in one way only: it sets
\* confirmed=true on a keytao_create_phrase call when the user text holds an
\* affirmative keyword and no negation keyword, the call is not confirmed
\* already, and a tool result with requiresConfirmation or warnings, or an
\* assistant text with a warning keyword, is among the last 30 messages;
\* every other argument, and every other tool's arguments, stay as they are.
C34_SafetyNetOnlyConfirms ==
    (skOut # NoSkillCall /\ skOut.tool = "safety_net") =>
        LET a == skIn.arguments
            affirmative == skIn.text \in { <<"que", "ren">>, <<" ", "O", "K", " ">>,
                                           <<"bu", "que", "ren">>, <<"ni", "hao">> }
            negation == skIn.text \in { <<"bu", "que", "ren">>, <<"suan", "le">> }
            evidence == /\ skIn.kind \in {"requiresConfirmation", "warnings",
                                           "assistant_keyword"}
                        /\ skIn.age + 1 <= 30
            fix == /\ skIn.name = "keytao_create_phrase"
                   /\ affirmative
                   /\ ~negation
                   /\ ~("confirmed" \in DOMAIN a /\ a.confirmed)
                   /\ evidence
        IN  /\ \A k \in DOMAIN a : k # "confirmed" =>
                  k \in DOMAIN skOut.out /\ skOut.out[k] = a[k]
            /\ DOMAIN skOut.out \subseteq DOMAIN a \cup {"confirmed"}
            /\ IF fix THEN skOut.out.confirmed = TRUE ELSE skOut.out = a

\* A create call without the flag, after "OK" and with a requiresConfirmation
\* result as the 30th message from the end, leaves confirmed.
C34_Witness ==
    /\ skOut # NoSkillCall
    /\ skOut.tool = "safety_net"
    /\ skIn.name = "keytao_create_phrase"
    /\ skIn.text = <<" ", "O", "K", " ">>
    /\ skIn.kind = "requiresConfirmation"
    /\ skIn.age = 29
    /\ skIn.arguments = [word |-> "w1", code |-> "c1", action |-> "Delete", remark |-> "r"]
    /\ skOut.out = [word |-> "w1", code |-> "c1", action |-> "Delete", remark |-> "r",
                    confirmed |-> TRUE]

\* C38: reply context is appended to the user message exactly when the event
\* replies to a message that has a sender and a text; it is the "replying to
\* the bot" context exactly when the replied message was sent by the bot,
\* also when the bot's own id cannot be obtained, and the "replying to
\* someone else" warning otherwise; QQ events get no reply context.
C38_ReplyContextTellsBotFromOthers ==
    (skOut # NoSkillCall /\ skOut.tool = "reply_context") =>
        LET replies == /\ skIn.reply # NoReplyTo
                       /\ skIn.reply[1] # "None"
                       /\ skIn.reply[2] # ""
            context == Tail(skOut.out)
        IN  /\ Head(skOut.out) = skIn.message
            /\ context # <<>> <=> replies
            /\ replies =>
                  /\ context[1] \in {"reply_to_bot", "reply_to_other"}
                  /\ context[1] = "reply_to_bot" <=> skIn.reply[1] = BotId
                  /\ context[Len(context)] = skIn.reply[2]
            /\ skIn.bot = "qq" => context = <<>>

\* C39: events sent by different users never resolve to the same
\* conversation key, on any platform branch and also without the sender
\* field, so one user's turn never reads or clears another user's history.
C39_DistinctSendersDistinctKeys ==
    (skOut # NoSkillCall /\ skOut.tool = "conversation_key"
        /\ skIn.first.sender # skIn.second.sender) =>
        /\ skOut.out.keys[1] # skOut.out.keys[2]
        /\ skOut.out.history = <<>>
        /\ skOut.out.cleared = 0

(***************************************************************************)
(* Further claims about the lookup skill (checked under SpecLookup)        *)
(***************************************************************************)
\* The entries of all the pages of a by-word call, in fetch order.
FetchedEntries ==
    skIn.page1.phrases \o Concat(skIn.more, 2, skIn.page1.totalPages)
\* An entry as the backend sent it.
AsFetched(e) == Phrase(e.word, e.code, e.weight)
\* A successful by-word result holds every fetched entry once, by ascending
\* code length, entries of equal code length in fetch order.
ResultIsFetchedByCodeLength ==
    LET res == skOut.result.phrases
    IN  /\ Len(res) = Len(FetchedEntries)
        /\ \A i, j \in DOMAIN res : i < j => Len(res[i].code) <= Len(res[j].code)
        /\ \A n \in 0..3 :
              LET OfLen(p) == Len(p.code) = n
                  got_n == SelectSeq(res, OfLen)
              IN  [k \in DOMAIN got_n |-> AsFetched(got_n[k])]
                    = SelectSeq(FetchedEntries, OfLen)
\* A by-word page GET failed.
PageFailed ==
    ~skIn.page1.ok \/ \E p \in 2..skIn.page1.totalPages : ~skIn.more[p].ok

C35_RuleExceptionFallback ==
    (dpc # "idle" /\ RuleRaises(event)) =>
        /\ should_handle(event) = FALSE
        /\ should_handle_bind(event) = TRUE
        /\ ran \cap {"ai_chat", "clear_cmd"} = {}
        /\ (dpc = "done" /\ event.cmd = "bind") => ran = {"bind_cmd"}

\* /bind in a Telegram group, neither mentioning nor replying to the bot,
\* was handled because bot.get_me() raised.
C35_Witness ==
    /\ dpc = "done"
    /\ event.bot = "telegram"
    /\ event.chat = "group"
    /\ event.raises
    /\ ~event.mention
    /\ ~event.replyToBot
    /\ ~event.tome
    /\ event.cmd = "bind"
    /\ ran = {"bind_cmd"}

====
